---- MODULE Spec2Model ----
(***************************************************************************)
(* Feature-flag evaluation of launch-darkly-lite: the domain entity's      *)
(* evaluate (condition matching, rule selection by priority, defaulting)   *)
(* and the evaluate use case that exposes it through the repository.       *)
(***************************************************************************)
EXTENDS Integers, Sequences, FiniteSets, TLC

VARIABLES repo, ctx, now, key, cond, arg, pc, out

vars == <<repo, ctx, now, key, cond, arg, pc, out>>

----------------------------------------------------------------------------
(* JavaScript values: a tag and a payload. Strings are sequences of        *)
(* characters; an array carries the identity of its object (ref), because  *)
(* === and Array.prototype.includes compare objects by identity.           *)

Undefined == [t |-> "undefined", v |-> 0]
Str(s) == [t |-> "string", v |-> s]
Num(n) == [t |-> "number", v |-> n]
Bool(b) == [t |-> "boolean", v |-> b]
Arr(r, es) == [t |-> "array", v |-> [ref |-> r, elems |-> es]]

\* typeof x
TypeOf(x) == IF x.t = "array" THEN "object" ELSE x.t

\* Array.isArray(x)
IsArray(x) == x.t = "array"

\* a === b
StrictEquals(a, b) ==
  /\ a.t = b.t
  /\ CASE a.t = "undefined" -> TRUE
       [] a.t = "array" -> a.v.ref = b.v.ref
       [] OTHER -> a.v = b.v

\* String.prototype.includes: s.includes(sub)
StringIncludes(s, sub) ==
  \E i \in 0..(Len(s) - Len(sub)) : SubSeq(s, i + 1, i + Len(sub)) = sub

\* Array.prototype.includes: arr.includes(x), for the values modelled here
ArrayIncludes(arr, x) ==
  \E i \in 1..Len(arr.v.elems) : StrictEquals(arr.v.elems[i], x)

----------------------------------------------------------------------------
(* Strings of the model *)

U1 == <<"u", "1">>
U2 == <<"u", "2">>
ADMIN == <<"a", "d", "m", "i", "n">>
OWNER == <<"o", "w", "n", "e", "r">>
USER == <<"u", "s", "e", "r">>
EMAIL == <<"a", "@", "b">>
PRO == <<"p", "r", "o">>
KEY1 == <<"k", "1">>
KEY2 == <<"k", "2">>

\* ConditionOperator
ConditionOperator ==
  {"equals", "not_equals", "contains", "not_contains",
   "greater_than", "less_than", "in", "not_in"}

----------------------------------------------------------------------------
(* EvaluationContext: userId?, userEmail?, userRole?, attributes?          *)

NoAttributes == [defined |-> FALSE, entries |-> <<>>]
Attributes(m) == [defined |-> TRUE, entries |-> m]

\* context.attributes?.[field]
AttributeLookup(attributes, field) ==
  IF ~attributes.defined THEN Undefined
  ELSE IF field \in DOMAIN attributes.entries THEN attributes.entries[field]
  ELSE Undefined

\* mutant: the role is read under the name of the context's own field
contextValue_userRoleCase(field, context) ==
  CASE field = "userId" -> context.userId
    [] field = "userEmail" -> context.userEmail
    [] field = "userRole" -> context.userRole
    [] OTHER -> AttributeLookup(context.attributes, field)

\* the switch (field) of evaluateCondition
contextValue(field, context) ==
  CASE field = "userId" -> context.userId
    [] field = "userEmail" -> context.userEmail
    [] field = "role" -> context.userRole
    [] OTHER -> AttributeLookup(context.attributes, field)

\* case ConditionOperator.CONTAINS
contains(cv, value) ==
  TypeOf(cv) = "string" /\ TypeOf(value) = "string"
    /\ StringIncludes(cv.v, value.v)

\* mutant: the negation of contains, true of every type mismatch
notContains_negatesContains(cv, value) == ~contains(cv, value)

\* case ConditionOperator.NOT_CONTAINS
notContains(cv, value) ==
  TypeOf(cv) = "string" /\ TypeOf(value) = "string"
    /\ ~StringIncludes(cv.v, value.v)

\* the switch (operator) of evaluateCondition
applyOperator(operator, cv, value) ==
  CASE operator = "equals" -> StrictEquals(cv, value)
    [] operator = "not_equals" -> ~StrictEquals(cv, value)
    [] operator = "contains" -> contains(cv, value)
    [] operator = "not_contains" -> notContains(cv, value)
    [] operator = "greater_than" ->
         TypeOf(cv) = "number" /\ TypeOf(value) = "number" /\ cv.v > value.v
    [] operator = "less_than" ->
         TypeOf(cv) = "number" /\ TypeOf(value) = "number" /\ cv.v < value.v
    [] operator = "in" -> IsArray(value) /\ ArrayIncludes(value, cv)
    [] operator = "not_in" -> IsArray(value) /\ ~ArrayIncludes(value, cv)
    [] OTHER -> FALSE

evaluateCondition(condition, context) ==
  applyOperator(condition.operator,
                contextValue(condition.field, context),
                condition.value)

\* mutant: some() in place of every()
evaluateRule_some(rule, context) ==
  \E i \in 1..Len(rule.conditions) :
    evaluateCondition(rule.conditions[i], context)

\* rule.conditions.every(condition => evaluateCondition(condition, context))
evaluateRule(rule, context) ==
  \A i \in 1..Len(rule.conditions) :
    evaluateCondition(rule.conditions[i], context)

----------------------------------------------------------------------------
(* FeatureFlagEntity and its evaluation *)

NoDate == [set |-> FALSE, at |-> 0]
Date(t) == [set |-> TRUE, at |-> t]

isEnabled(flag) == flag.enabled

\* mutant: the expiry instant itself counts as expired
isExpired_atExpiry(flag, clock) ==
  IF flag.expiresAt.set THEN clock >= flag.expiresAt.at ELSE FALSE

\* flag.expiresAt ? new Date() > flag.expiresAt : false
isExpired(flag, clock) ==
  IF flag.expiresAt.set THEN clock > flag.expiresAt.at ELSE FALSE

\* mutant: the enabled switch is not consulted
canEvaluate_ignoresEnabled(flag, clock) == ~isExpired(flag, clock)

canEvaluate(flag, clock) == isEnabled(flag) /\ ~isExpired(flag, clock)

\* mutant: ascending comparator
comparePriority_ascending(a, b) == a.priority - b.priority

\* the comparator (a, b) => b.priority - a.priority
comparePriority(a, b) == b.priority - a.priority

\* mutant: an unstable sort, a later rule overtakes its equals
RECURSIVE insertUnstable(_, _)
insertUnstable(sorted, r) ==
  IF sorted = <<>> THEN <<r>>
  ELSE IF comparePriority(Head(sorted), r) < 0
       THEN <<Head(sorted)>> \o insertUnstable(Tail(sorted), r)
       ELSE <<r>> \o sorted

\* One step of a stable sort: r goes behind every element that the
\* comparator does not place after it.
RECURSIVE insertStable(_, _)
insertStable(sorted, r) ==
  IF sorted = <<>> THEN <<r>>
  ELSE IF comparePriority(Head(sorted), r) <= 0
       THEN <<Head(sorted)>> \o insertStable(Tail(sorted), r)
       ELSE <<r>> \o sorted

\* [...rules].sort(comparator): Array.prototype.sort is stable
RECURSIVE sortRules(_)
sortRules(rules) ==
  IF rules = <<>> THEN <<>>
  ELSE insertStable(sortRules(SubSeq(rules, 1, Len(rules) - 1)),
                    rules[Len(rules)])

\* mutant: false, not the default, when the scan finds nothing
RECURSIVE firstMatch_false(_, _, _)
firstMatch_false(sortedRules, context, dflt) ==
  IF sortedRules = <<>> THEN FALSE
  ELSE IF evaluateRule(Head(sortedRules), context) THEN Head(sortedRules).value
  ELSE firstMatch_false(Tail(sortedRules), context, dflt)

\* for (const rule of sortedRules) if (evaluateRule(rule, context)) return rule.value
RECURSIVE firstMatch(_, _, _)
firstMatch(sortedRules, context, dflt) ==
  IF sortedRules = <<>> THEN dflt
  ELSE IF evaluateRule(Head(sortedRules), context) THEN Head(sortedRules).value
  ELSE firstMatch(Tail(sortedRules), context, dflt)

evaluate(flag, context, clock) ==
  IF ~canEvaluate(flag, clock) THEN flag.defaultValue
  ELSE firstMatch(sortRules(flag.rules), context, flag.defaultValue)

----------------------------------------------------------------------------
(* The evaluate use case: key check, request validation, findByKey,        *)
(* evaluation, response.                                                   *)

Fail(op, message) ==
  [op |-> op, ok |-> FALSE, error |-> message, rule |-> 0,
   flagKey |-> <<>>, value |-> FALSE, reason |-> "", timestamp |-> 0]

\* toEvaluationResponseDto(flagKey, value, reason), timestamp: new Date()
toEvaluationResponseDto(flagKey, value, reason, clock) ==
  [op |-> "evaluateFeatureFlagUseCase", ok |-> TRUE, error |-> "", rule |-> 0,
   flagKey |-> flagKey, value |-> value, reason |-> reason, timestamp |-> clock]

\* The request body a caller sends for an evaluation context: the DTO names
\* the attribute bag "context".
requestDto(context) ==
  [userId |-> context.userId, userEmail |-> context.userEmail,
   userRole |-> context.userRole, context |-> context.attributes]

\* EvaluationRequestSchema.parse(dto): userId is a string of at least one
\* character, context an optional record; keys the schema does not name are
\* stripped from the parsed value.
validateEvaluationRequest(dto) ==
  IF dto.userId.t = "string" /\ Len(dto.userId.v) >= 1
  THEN [ok |-> TRUE, dto |-> [userId |-> dto.userId, context |-> dto.context]]
  ELSE [ok |-> FALSE, dto |-> [userId |-> Undefined, context |-> NoAttributes]]

\* mutant: any stored flag stands in for a missing key
findByKey_anyFlag(repository, k) ==
  IF repository # {}
  THEN [found |-> TRUE,
        flag |-> IF \E f \in repository : f.key = k
                 THEN CHOOSE f \in repository : f.key = k
                 ELSE CHOOSE f \in repository : TRUE]
  ELSE [found |-> FALSE]

\* featureFlagRepository.findByKey(key): the stored flag with that key, or null
findByKey(repository, k) ==
  IF \E f \in repository : f.key = k
  THEN [found |-> TRUE, flag |-> CHOOSE f \in repository : f.key = k]
  ELSE [found |-> FALSE]

\* const context = { userId: validatedDto.userId, attributes: validatedDto.context }
useCaseContext(validatedDto) ==
  [userId |-> validatedDto.userId, userEmail |-> Undefined,
   userRole |-> Undefined, attributes |-> validatedDto.context]

\* the last step of the use case: evaluate, reason, response
evaluateFound(flag, validatedDto, clock) ==
  LET context == useCaseContext(validatedDto)
      result == evaluate(flag, context, clock)
      reason == IF result = flag.defaultValue THEN "default" ELSE "rule_match"
  IN toEvaluationResponseDto(flag.key, result, reason, clock)

evaluateFeatureFlagUseCase(k, dto, repository, clock) ==
  LET op == "evaluateFeatureFlagUseCase" IN
  IF k = <<>> THEN Fail(op, "Feature flag key is required")
  ELSE LET validated == validateEvaluationRequest(dto) IN
    IF ~validated.ok THEN Fail(op, "Validation failed")
    ELSE LET found == findByKey(repository, k) IN
      IF ~found.found THEN Fail(op, "Feature flag not found")
      ELSE evaluateFound(found.flag, validated.dto, clock)

----------------------------------------------------------------------------
(* Bounds and input sets *)

MaxRules == 2
MaxTime == 2

CondUserId ==
  [field |-> "userId", operator |-> "equals", value |-> Str(U1)]
CondRole ==
  [field |-> "role", operator |-> "in",
   value |-> Arr(1, <<Str(ADMIN), Str(OWNER)>>)]

CondLists == {<<>>, <<CondUserId>>, <<CondRole>>, <<CondUserId, CondRole>>}
Priorities == {1, 2}

RuleBodies == [conditions : CondLists, value : BOOLEAN, priority : Priorities]

RuleIds == <<"rule-1", "rule-2", "rule-3", "rule-4">>

MkRule(i, b) ==
  [id |-> RuleIds[i], type |-> "custom_attribute", conditions |-> b.conditions,
   value |-> b.value, priority |-> b.priority]

RuleLists ==
  UNION {{[i \in 1..n |-> MkRule(i, bs[i])] : bs \in [1..n -> RuleBodies]} :
         n \in 0..MaxRules}

Flags ==
  {[id |-> "flag-1", key |-> KEY1, name |-> "Flag", description |-> "",
    enabled |-> e, defaultValue |-> d, rules |-> rs, createdBy |-> "user-1",
    createdAt |-> 0, updatedAt |-> 0, expiresAt |-> x] :
   e \in BOOLEAN, d \in BOOLEAN, rs \in RuleLists, x \in {NoDate, Date(1)}}

EmptyContext ==
  [userId |-> Undefined, userEmail |-> Undefined, userRole |-> Undefined,
   attributes |-> NoAttributes]

Contexts ==
  {EmptyContext} \cup
  {[userId |-> Str(u), userEmail |-> Str(EMAIL), userRole |-> Str(r),
    attributes |-> Attributes([plan |-> Str(PRO)])] :
   u \in {U1, U2}, r \in {ADMIN, USER}}

Keys == {<<>>, KEY1, KEY2}

\* no arguments: the operation takes its inputs from the other variables
NoArg == [op |-> ""]
NoCond == [field |-> "", operator |-> "", value |-> Undefined]
NoOut == [op |-> "", ok |-> FALSE, error |-> "", rule |-> 0,
          flagKey |-> <<>>, value |-> FALSE, reason |-> "", timestamp |-> 0]

----------------------------------------------------------------------------
(* Specification: a flag in the repository, a context and a clock reading; *)
(* the entity's evaluate or the use case is applied to them.               *)

Init ==
  /\ repo \in {{f} : f \in Flags}
  /\ ctx \in Contexts
  /\ now \in 0..MaxTime
  /\ key = <<>>
  /\ cond = NoCond
  /\ arg = NoArg
  /\ pc = "start"
  /\ out = NoOut

\* evaluate(flag, context) on the entity
Evaluate ==
  /\ pc = "start"
  /\ \E f \in repo :
       out' = [NoOut EXCEPT !.op = "evaluate", !.ok = TRUE,
                            !.flagKey = f.key,
                            !.value = evaluate(f, ctx, now)]
  /\ pc' = "done"
  /\ UNCHANGED <<repo, ctx, now, key, cond, arg>>

\* evaluateFeatureFlagUseCase(key, dto, featureFlagRepository)
EvaluateUseCase ==
  /\ pc = "start"
  /\ \E k \in Keys :
       /\ key' = k
       /\ out' = evaluateFeatureFlagUseCase(k, requestDto(ctx), repo, now)
  /\ pc' = "done"
  /\ UNCHANGED <<repo, ctx, now, cond, arg>>

\* isExpired(flag)
IsExpired ==
  /\ pc = "start"
  /\ \E f \in repo :
       out' = [NoOut EXCEPT !.op = "isExpired", !.ok = TRUE,
                            !.flagKey = f.key,
                            !.value = isExpired(f, now)]
  /\ pc' = "done"
  /\ UNCHANGED <<repo, ctx, now, key, cond, arg>>

\* evaluateRule(rule, context) on one rule of the flag
EvaluateRule ==
  /\ pc = "start"
  /\ \E f \in repo : \E i \in 1..Len(f.rules) :
       out' = [NoOut EXCEPT !.op = "evaluateRule", !.ok = TRUE,
                            !.flagKey = f.key, !.rule = i,
                            !.value = evaluateRule(f.rules[i], ctx)]
  /\ pc' = "done"
  /\ UNCHANGED <<repo, ctx, now, key, cond, arg>>

Next == Evaluate \/ EvaluateUseCase \/ IsExpired \/ EvaluateRule

Spec == Init /\ [][Next]_vars

----------------------------------------------------------------------------
(* Specification of condition evaluation: one condition, any operator,     *)
(* against a context value and a condition value of any type.              *)

MaxNum == 2

EmptyArray == Arr(1, <<>>)
MixedArray == Arr(2, <<Str(<<"a">>), Num(1), Undefined>>)
MixedArrayCopy == Arr(3, <<Str(<<"a">>), Num(1), Undefined>>)
NestingArray == Arr(4, <<Bool(TRUE), EmptyArray>>)

Values ==
  {Undefined}
    \cup {Str(x) : x \in {<<>>, <<"a">>, <<"b">>, <<"a", "b">>}}
    \cup {Num(n) : n \in 0..MaxNum}
    \cup {Bool(b) : b \in BOOLEAN}
    \cup {EmptyArray, MixedArray, MixedArrayCopy, NestingArray}

Operators == ConditionOperator \cup {"matches"}

InitCond ==
  /\ repo = {}
  /\ ctx \in {[EmptyContext EXCEPT !.attributes = Attributes([attr |-> cv])] :
               cv \in Values}
  /\ cond \in [field : {"attr"}, operator : Operators, value : Values]
  /\ now = 0
  /\ key = <<>>
  /\ arg = NoArg
  /\ pc = "start"
  /\ out = NoOut

\* evaluateCondition(condition, context)
EvaluateCondition ==
  /\ pc = "start"
  /\ out' = [NoOut EXCEPT !.op = "evaluateCondition", !.ok = TRUE,
                          !.value = evaluateCondition(cond, ctx)]
  /\ pc' = "done"
  /\ UNCHANGED <<repo, ctx, now, key, cond, arg>>

NextCond == EvaluateCondition

SpecCond == InitCond /\ [][NextCond]_vars

----------------------------------------------------------------------------
(* Vocabulary of the properties *)

TheFlag == CHOOSE f \in repo : TRUE
UseCase == "evaluateFeatureFlagUseCase"

\* an evaluation has returned a decision
Evaluated == pc = "done" /\ out.ok /\ out.op \in {"evaluate", UseCase}

\* the context the engine was given: the caller's for the entity's evaluate,
\* the one the use case built for the exposed operation
EngineContext ==
  IF out.op = UseCase
  THEN useCaseContext(validateEvaluationRequest(requestDto(ctx)).dto)
  ELSE ctx

ExpiredNow == TheFlag.expiresAt.set /\ TheFlag.expiresAt.at < now
Eligible == TheFlag.enabled /\ ~ExpiredNow

ConditionsHold(rule, context) ==
  {i \in 1..Len(rule.conditions) :
     ~evaluateCondition(rule.conditions[i], context)} = {}

\* positions in flag.rules of the rules that match the engine's context
Matching ==
  {i \in 1..Len(TheFlag.rules) : ConditionsHold(TheFlag.rules[i], EngineContext)}

TopMatching ==
  {i \in Matching :
     \A j \in Matching : TheFlag.rules[j].priority <= TheFlag.rules[i].priority}

ReturnsDefault ==
  /\ out.value = TheFlag.defaultValue
  /\ out.op = UseCase => out.reason = "default"

\* some rule would match and give the other value
RuleWouldDecide ==
  \E i \in Matching : TheFlag.rules[i].value # TheFlag.defaultValue

----------------------------------------------------------------------------
(* Properties *)

\* C1: a flag with enabled = false evaluates to its defaultValue, reason
\* "default", for every context and whatever its rules are.
C1_DisabledReturnsDefault ==
  (Evaluated /\ ~TheFlag.enabled) => ReturnsDefault

C1_Witness ==
  /\ Evaluated /\ out.op = UseCase
  /\ ~TheFlag.enabled /\ ~ExpiredNow
  /\ RuleWouldDecide
  /\ out.reason = "default"

C1_WitnessEmptyContext ==
  /\ Evaluated /\ out.op = "evaluate"
  /\ ~TheFlag.enabled /\ ctx = EmptyContext

\* C2: a flag whose expiresAt is set and strictly before the current time
\* evaluates to its defaultValue, reason "default", enabled or not; isExpired
\* is true of exactly those flags, so a flag without expiresAt or with
\* expiresAt at or after the current time is not expired.
C2_ExpiredReturnsDefault ==
  /\ (Evaluated /\ ExpiredNow) => ReturnsDefault
  /\ (pc = "done" /\ out.op = "isExpired") => (out.value <=> ExpiredNow)

C2_Witness ==
  /\ Evaluated /\ out.op = UseCase
  /\ ExpiredNow /\ TheFlag.enabled
  /\ RuleWouldDecide

C2_WitnessAtExpiry ==
  /\ pc = "done" /\ out.op = "isExpired"
  /\ TheFlag.expiresAt.set /\ TheFlag.expiresAt.at = now
  /\ ~out.value

C4_EarliestOfEqualPriorityWins ==
  (Evaluated /\ Eligible /\ Matching # {}) =>
    \E i \in TopMatching :
      /\ \A j \in TopMatching : i <= j
      /\ out.value = TheFlag.rules[i].value

C4_Witness ==
  /\ Evaluated /\ Eligible
  /\ \E i, j \in TopMatching :
       /\ i < j
       /\ \A k \in TopMatching : i <= k
       /\ TheFlag.rules[i].value # TheFlag.rules[j].value
       /\ out.value = TheFlag.rules[i].value

\* C5: for an enabled, unexpired flag none of whose rules matches (an empty
\* rule list included) the result is defaultValue with reason "default".
C5_NoMatchReturnsDefault ==
  (Evaluated /\ Eligible /\ Matching = {}) => ReturnsDefault

C5_Witness ==
  /\ Evaluated /\ out.op = UseCase /\ Eligible
  /\ TheFlag.rules # <<>> /\ Matching = {}
  /\ TheFlag.defaultValue
  /\ \A i \in 1..Len(TheFlag.rules) : ~TheFlag.rules[i].value

C5_WitnessNoRules ==
  /\ Evaluated /\ Eligible /\ TheFlag.rules = <<>> /\ TheFlag.defaultValue

\* C9: a rule matches exactly when none of its conditions fails, and a
\* result other than the default always is the value of a rule all of whose
\* conditions hold.
C9_RuleIsConjunction ==
  /\ (pc = "done" /\ out.op = "evaluateRule") =>
       (out.value <=> ConditionsHold(TheFlag.rules[out.rule], ctx))
  /\ (Evaluated /\ out.value # TheFlag.defaultValue) =>
       \E i \in Matching : TheFlag.rules[i].value = out.value
  /\ (Evaluated /\ out.op = UseCase /\ out.reason = "rule_match") =>
       Matching # {}

C9_Witness ==
  /\ pc = "done" /\ out.op = "evaluateRule" /\ ~out.value
  /\ Len(TheFlag.rules[out.rule].conditions) = 2
  /\ evaluateCondition(TheFlag.rules[out.rule].conditions[1], ctx)
  /\ ~evaluateCondition(TheFlag.rules[out.rule].conditions[2], ctx)

\* C6 (as claimed): whenever a rule of an enabled, unexpired flag matches,
\* the exposed evaluation returns that rule's value with reason "rule_match",
\* whatever rule.value and flag.defaultValue are.
C6_MatchGivesRuleMatch ==
  (Evaluated /\ out.op = UseCase /\ Eligible /\ Matching # {}) =>
    /\ out.reason = "rule_match"
    /\ \E i \in TopMatching : out.value = TheFlag.rules[i].value

C8_RoleConditionSeesUserRole ==
  (Evaluated /\ out.op = UseCase /\ Eligible
     /\ Len(TheFlag.rules) = 1 /\ TheFlag.rules[1].conditions = <<CondRole>>) =>
    out.value = IF ctx.userRole \in {Str(ADMIN), Str(OWNER)}
                THEN TheFlag.rules[1].value
                ELSE TheFlag.defaultValue

----------------------------------------------------------------------------
(* Properties of condition evaluation (SpecCond) *)

\* the context value a condition of SpecCond resolves to
ResolvedValue == ctx.attributes.entries[cond.field]

\* sub occurs in s as a contiguous slice
IsSlice(sub, s) ==
  \E a \in 0..Len(s) : \E b \in a..Len(s) : SubSeq(s, a + 1, b) = sub

Members(arr) == {arr.v.elems[i] : i \in 1..Len(arr.v.elems)}

\* the reference table of the operators
ReferenceTable(operator, cv, value) ==
  CASE operator = "equals" -> cv = value
    [] operator = "not_equals" -> cv # value
    [] operator = "contains" ->
         cv.t = "string" /\ value.t = "string" /\ IsSlice(value.v, cv.v)
    [] operator = "not_contains" ->
         cv.t = "string" /\ value.t = "string" /\ ~IsSlice(value.v, cv.v)
    [] operator = "greater_than" ->
         cv.t = "number" /\ value.t = "number" /\ value.v < cv.v
    [] operator = "less_than" ->
         cv.t = "number" /\ value.t = "number" /\ value.v > cv.v
    [] operator = "in" -> value.t = "array" /\ cv \in Members(value)
    [] operator = "not_in" -> value.t = "array" /\ cv \notin Members(value)
    [] OTHER -> FALSE

\* C10: for every operator, context value and condition value (strings,
\* numbers, booleans, arrays, absent) evaluateCondition equals the reference
\* table; a type mismatch or an unknown operator gives false.
C10_ConditionTable ==
  (pc = "done" /\ out.op = "evaluateCondition") =>
    out.value = ReferenceTable(cond.operator, ResolvedValue, cond.value)

C10_Witness ==
  /\ pc = "done" /\ out.op = "evaluateCondition"
  /\ cond.operator = "not_contains"
  /\ ResolvedValue.t = "number" /\ cond.value.t = "string"
  /\ ~out.value

----------------------------------------------------------------------------
(* Specification of field resolution: one equals-condition on any field    *)
(* name against contexts whose attribute bag is absent, empty, or holds    *)
(* entries named like the well-known fields.                               *)

\* an attribute bag with an entry under every name the switch knows
ShadowingAttributes ==
  Attributes([userId |-> Str(U2), userEmail |-> Str(PRO), role |-> Str(OWNER),
              userRole |-> Str(USER), plan |-> Num(1)])

FieldNames == {"userId", "userEmail", "role", "userRole", "plan", "country"}

FieldContexts ==
  [userId : {Undefined, Str(U1)}, userEmail : {Undefined, Str(EMAIL)},
   userRole : {Undefined, Str(ADMIN)},
   attributes : {NoAttributes, Attributes(<<>>), ShadowingAttributes}]

FieldValues ==
  {Undefined, Str(U1), Str(U2), Str(EMAIL), Str(PRO), Str(ADMIN), Str(OWNER),
   Str(USER), Num(1)}

InitField ==
  /\ repo = {}
  /\ ctx \in FieldContexts
  /\ cond \in [field : FieldNames, operator : {"equals"}, value : FieldValues]
  /\ now = 0
  /\ key = <<>>
  /\ arg = NoArg
  /\ pc = "start"
  /\ out = NoOut

SpecField == InitField /\ [][NextCond]_vars

\* the entry of the attribute bag under a name, absent when the bag or the
\* entry is
AttributeEntry(context, name) ==
  IF context.attributes.defined /\ name \in DOMAIN context.attributes.entries
  THEN context.attributes.entries[name]
  ELSE Undefined

C11_WitnessUserRole ==
  /\ pc = "done" /\ out.op = "evaluateCondition"
  /\ cond.field = "userRole" /\ ctx.userRole = Str(ADMIN)
  /\ ctx.attributes = ShadowingAttributes /\ cond.value = Str(USER)
  /\ out.value

----------------------------------------------------------------------------
(* Validation functions of the entity: validateKey, validateName,          *)
(* validateRules. Each is an Effect.try: a throw inside it, a TypeError    *)
(* included, is the failure of the effect.                                 *)

Ok(op, value) == [NoOut EXCEPT !.op = op, !.ok = TRUE, !.value = value]

\* what String.prototype.trim removes, among the characters of the model
WhiteSpace == {" ", "\t", "\n", "\r"}

RECURSIVE trimStart(_)
trimStart(s) ==
  IF s # <<>> /\ Head(s) \in WhiteSpace THEN trimStart(Tail(s)) ELSE s

RECURSIVE trimEnd(_)
trimEnd(s) ==
  IF s # <<>> /\ s[Len(s)] \in WhiteSpace
  THEN trimEnd(SubSeq(s, 1, Len(s) - 1))
  ELSE s

\* s.trim()
trim(s) == trimEnd(trimStart(s))

Letters ==
  {"a", "b", "c", "d", "e", "f", "g", "h", "i", "j", "k", "l", "m",
   "n", "o", "p", "q", "r", "s", "t", "u", "v", "w", "x", "y", "z",
   "A", "B", "C", "D", "E", "F", "G", "H", "I", "J", "K", "L", "M",
   "N", "O", "P", "Q", "R", "S", "T", "U", "V", "W", "X", "Y", "Z"}
Digits == {"0", "1", "2", "3", "4", "5", "6", "7", "8", "9"}

\* the class [a-zA-Z0-9_-]
KeyChars == Letters \cup Digits \cup {"_", "-"}

\* /^[a-zA-Z0-9_-]+$/.test(s): without the m flag $ is the end of the input
matchesKeyPattern(s) == Len(s) >= 1 /\ \A i \in 1..Len(s) : s[i] \in KeyChars

\* mutant: the pattern is tested on the trimmed key
validateKey_testsTrimmed(k) ==
  LET op == "validateKey" IN
  IF Len(k) = 0 \/ Len(trim(k)) = 0 THEN Fail(op, "Flag key is required")
  ELSE IF ~matchesKeyPattern(trim(k))
  THEN Fail(op, "Flag key can only contain letters, numbers, underscores, and hyphens")
  ELSE Ok(op, trim(k))

validateKey(k) ==
  LET op == "validateKey" IN
  IF Len(k) = 0 \/ Len(trim(k)) = 0 THEN Fail(op, "Flag key is required")
  ELSE IF ~matchesKeyPattern(k)
  THEN Fail(op, "Flag key can only contain letters, numbers, underscores, and hyphens")
  ELSE Ok(op, trim(k))

\* the limit of name.trim().length
NameMaxLength == 100

\* mutant: a name of exactly the limit is refused
validateName_atLimit(name) ==
  LET op == "validateName" IN
  IF Len(name) = 0 \/ Len(trim(name)) = 0 THEN Fail(op, "Flag name is required")
  ELSE IF Len(trim(name)) >= NameMaxLength
  THEN Fail(op, "Flag name cannot exceed 100 characters")
  ELSE Ok(op, trim(name))

validateName(name) ==
  LET op == "validateName" IN
  IF Len(name) = 0 \/ Len(trim(name)) = 0 THEN Fail(op, "Flag name is required")
  ELSE IF Len(trim(name)) > NameMaxLength
  THEN Fail(op, "Flag name cannot exceed 100 characters")
  ELSE Ok(op, trim(name))

\* An object as it arrives from a request body or a stored row: every
\* property is a JavaScript value, Undefined when the property is missing.
Obj(fields) == [t |-> "object", v |-> fields]

\* !x
Falsy(x) ==
  CASE x.t = "undefined" -> TRUE
    [] x.t = "string" -> Len(x.v) = 0
    [] x.t = "number" -> x.v = 0
    [] x.t = "boolean" -> ~x.v
    [] OTHER -> FALSE

\* the check of one condition; reading a property of undefined throws
conditionError(condition) ==
  IF condition.t = "undefined" THEN "TypeError"
  ELSE IF Falsy(condition.v.field) \/ Falsy(condition.v.operator)
            \/ condition.v.value = Undefined
  THEN "Each condition must have field, operator, and value"
  ELSE ""

\* for (const condition of rule.conditions): the first throw ends the loop
conditionsError(conditions) ==
  LET bad == {i \in 1..Len(conditions) : conditionError(conditions[i]) # ""}
  IN IF bad = {} THEN ""
     ELSE conditionError(conditions[CHOOSE i \in bad : \A j \in bad : i <= j])

\* mutant: the conditions of a rule are not looked at
ruleError_skipsConditions(rule) ==
  IF Falsy(rule.v.id) \/ Falsy(rule.v.type)
       \/ TypeOf(rule.v.value) # "boolean" \/ TypeOf(rule.v.priority) # "number"
  THEN "Each rule must have id, type, value, and priority"
  ELSE ""

\* mutant: a rule needs only its id and type
ruleError_idAndType(rule) ==
  IF Falsy(rule.v.id) \/ Falsy(rule.v.type)
  THEN "Each rule must have id, type, value, and priority"
  ELSE IF ~IsArray(rule.v.conditions)
  THEN "Each rule must have conditions array"
  ELSE conditionsError(rule.v.conditions.v.elems)

\* the body of for (const rule of rules)
ruleError(rule) ==
  IF Falsy(rule.v.id) \/ Falsy(rule.v.type)
       \/ TypeOf(rule.v.value) # "boolean" \/ TypeOf(rule.v.priority) # "number"
  THEN "Each rule must have id, type, value, and priority"
  ELSE IF ~IsArray(rule.v.conditions)
  THEN "Each rule must have conditions array"
  ELSE conditionsError(rule.v.conditions.v.elems)

validateRules(rules) ==
  LET op == "validateRules" IN
  IF ~IsArray(rules) THEN Fail(op, "Rules must be an array")
  ELSE LET bad == {i \in 1..Len(rules.v.elems) : ruleError(rules.v.elems[i]) # ""}
       IN IF bad = {} THEN Ok(op, rules)
          ELSE Fail(op, ruleError(rules.v.elems[CHOOSE i \in bad :
                                                  \A j \in bad : i <= j]))

----------------------------------------------------------------------------
(* Specification of the validators: one validator applied to one input.    *)

MaxKeyLen == 3
MaxPad == 1
MaxOver == 1
MaxRawRules == 2

KeyAlphabet == {"a", "Z", "7", "_", "-", " ", "\n", "!"}

KeyStrings == UNION {[1..n -> KeyAlphabet] : n \in 0..MaxKeyLen}

\* n characters, the inner ones c
NameBody(n, c) == [i \in 1..n |-> IF i = 1 \/ i = n THEN "x" ELSE c]

Pad(n) == [i \in 1..n |-> " "]

NameStrings ==
  {Pad(l) \o NameBody(n, c) \o Pad(r) :
     l \in 0..MaxPad, r \in 0..MaxPad, c \in {"x", " "},
     n \in 0..(NameMaxLength + MaxOver)}

GoodCondition ==
  Obj([field |-> Str("userId"), operator |-> Str("equals"), value |-> Str(U1)])

\* a condition with one property changed, and the hole of a list
ConditionVariants ==
  {GoodCondition, Undefined}
    \cup {Obj([GoodCondition.v EXCEPT !.field = x]) : x \in {Undefined, Str("")}}
    \cup {Obj([GoodCondition.v EXCEPT !.operator = x]) : x \in {Undefined, Str("")}}
    \cup {Obj([GoodCondition.v EXCEPT !.value = x]) :
            x \in {Undefined, Bool(FALSE), Num(0), Str(<<>>)}}

ConditionsValues ==
  {Undefined, Str("none"), Arr(20, <<>>)}
    \cup {Arr(21, <<c>>) : c \in ConditionVariants}
    \cup {Arr(22, <<GoodCondition, c>>) : c \in ConditionVariants}

GoodRule ==
  Obj([id |-> Str("rule-1"), type |-> Str("user_id"), value |-> Bool(TRUE),
       priority |-> Num(1), conditions |-> Arr(21, <<GoodCondition>>)])

\* { invalid: 'rule' }: none of the properties of a rule
NoRuleProperties ==
  Obj([id |-> Undefined, type |-> Undefined, value |-> Undefined,
       priority |-> Undefined, conditions |-> Undefined])

\* a rule with one property changed
RuleVariants ==
  {GoodRule, NoRuleProperties}
    \cup {Obj([GoodRule.v EXCEPT !.id = x]) : x \in {Undefined, Str("")}}
    \cup {Obj([GoodRule.v EXCEPT !.type = x]) : x \in {Undefined, Str("")}}
    \cup {Obj([GoodRule.v EXCEPT !.value = x]) :
            x \in {Undefined, Str("true"), Num(1), Bool(FALSE)}}
    \cup {Obj([GoodRule.v EXCEPT !.priority = x]) :
            x \in {Undefined, Str("1"), Num(0), Num(2)}}
    \cup {Obj([GoodRule.v EXCEPT !.conditions = x]) : x \in ConditionsValues}

RawRuleLists ==
  {Undefined} \cup
  {Arr(30, es) : es \in UNION {[1..n -> RuleVariants] : n \in 0..MaxRawRules}}

ValidatorArgs ==
  {[op |-> "validateKey", key |-> k] : k \in KeyStrings}
    \cup {[op |-> "validateName", name |-> n] : n \in NameStrings}
    \cup {[op |-> "validateRules", rules |-> rs] : rs \in RawRuleLists}

InitValidate ==
  /\ repo = {}
  /\ ctx = EmptyContext
  /\ now = 0
  /\ key = <<>>
  /\ cond = NoCond
  /\ arg \in ValidatorArgs
  /\ pc = "start"
  /\ out = NoOut

\* validateKey(key)
ValidateKey ==
  /\ pc = "start" /\ arg.op = "validateKey"
  /\ out' = validateKey(arg.key)
  /\ pc' = "done"
  /\ UNCHANGED <<repo, ctx, now, key, cond, arg>>

\* validateName(name)
ValidateName ==
  /\ pc = "start" /\ arg.op = "validateName"
  /\ out' = validateName(arg.name)
  /\ pc' = "done"
  /\ UNCHANGED <<repo, ctx, now, key, cond, arg>>

\* validateRules(rules)
ValidateRules ==
  /\ pc = "start" /\ arg.op = "validateRules"
  /\ out' = validateRules(arg.rules)
  /\ pc' = "done"
  /\ UNCHANGED <<repo, ctx, now, key, cond, arg>>

NextValidate == ValidateKey \/ ValidateName \/ ValidateRules

SpecValidate == InitValidate /\ [][NextValidate]_vars

----------------------------------------------------------------------------
(* Properties of the validators (SpecValidate) *)

\* t is s without its leading and trailing whitespace
IsTrimOf(t, s) ==
  /\ t = <<>> \/ (t[1] \notin WhiteSpace /\ t[Len(t)] \notin WhiteSpace)
  /\ \E a \in 0..Len(s) : \E b \in a..Len(s) :
       /\ SubSeq(s, a + 1, b) = t
       /\ \A i \in (1..a) \cup ((b + 1)..Len(s)) : s[i] \in WhiteSpace

BlankString(s) == \A i \in 1..Len(s) : s[i] \in WhiteSpace

\* C13: validateKey fails for every key that is empty after trimming or has a
\* character outside [A-Za-z0-9_-]; for every other key it succeeds and
\* returns the key, trimmed.
C13_ValidateKey ==
  (pc = "done" /\ out.op = "validateKey") =>
    IF BlankString(arg.key) \/ \E i \in 1..Len(arg.key) : arg.key[i] \notin KeyChars
    THEN ~out.ok
    ELSE out.ok /\ IsTrimOf(out.value, arg.key)

\* a key that is well-formed but for the blank before it
C13_Witness ==
  /\ pc = "done" /\ out.op = "validateKey"
  /\ arg.key = <<" ", "a", "7">>
  /\ ~out.ok

C13_WitnessAccepted ==
  /\ pc = "done" /\ out.op = "validateKey"
  /\ arg.key = <<"Z", "-", "_">>
  /\ out.ok /\ out.value = arg.key

\* C14: validateName succeeds exactly when the trimmed name has 1 to 100
\* characters, and then returns the trimmed name; it fails when the name is
\* empty after trimming or its trimmed length exceeds 100.
C14_ValidateName ==
  (pc = "done" /\ out.op = "validateName") =>
    LET trimmed == CHOOSE t \in {SubSeq(arg.name, a, b) :
                                   a \in 1..(Len(arg.name) + 1),
                                   b \in 0..Len(arg.name)} :
                     IsTrimOf(t, arg.name)
    IN /\ out.ok <=> (Len(trimmed) >= 1 /\ Len(trimmed) <= 100)
       /\ out.ok => out.value = trimmed

\* a padded name whose trimmed length is exactly the limit
C14_Witness ==
  /\ pc = "done" /\ out.op = "validateName"
  /\ Len(arg.name) = 102 /\ arg.name[1] = " " /\ arg.name[102] = " "
  /\ out.ok /\ Len(out.value) = 100

C14_WitnessTooLong ==
  /\ pc = "done" /\ out.op = "validateName"
  /\ Len(arg.name) = 101 /\ arg.name[1] = "x" /\ arg.name[101] = "x"
  /\ ~out.ok /\ out.error = "Flag name cannot exceed 100 characters"

\* the rules of the list handed to validateRules
ArgRules == arg.rules.v.elems

\* a property that is a non-empty string
Present(x) == x.t = "string" /\ Len(x.v) >= 1

\* conditions is an array with at least one condition
NonEmptyCollection(conditions) ==
  conditions.t = "array" /\ Len(conditions.v.elems) >= 1

\* C15 (as claimed): validateRules fails for every rule list with a rule whose
\* conditions is missing, not an array, or an array of zero conditions.
C15_EmptyConditionsRejected ==
  (pc = "done" /\ out.op = "validateRules" /\ arg.rules.t = "array"
     /\ \E i \in 1..Len(ArgRules) : ~NonEmptyCollection(ArgRules[i].v.conditions))
    => ~out.ok

\* a condition with field, operator and a value
CompleteCondition(c) ==
  /\ c.t = "object"
  /\ Present(c.v.field) /\ Present(c.v.operator) /\ c.v.value.t # "undefined"

\* a rule with id, type, boolean value, numeric priority and complete
\* conditions, as far as it has conditions
CompleteRule(r) ==
  /\ Present(r.v.id) /\ Present(r.v.type)
  /\ r.v.value.t = "boolean" /\ r.v.priority.t = "number"
  /\ r.v.conditions.t = "array" =>
       \A k \in 1..Len(r.v.conditions.v.elems) :
         CompleteCondition(r.v.conditions.v.elems[k])

C16_WitnessRejected ==
  /\ pc = "done" /\ out.op = "validateRules" /\ arg.rules.t = "array"
  /\ Len(ArgRules) = 2
  /\ ArgRules[1] = GoodRule /\ ArgRules[2].v.value = Str("true")
  /\ ~out.ok
  /\ out.error = "Each rule must have id, type, value, and priority"

----------------------------------------------------------------------------
(* Construction with validation, and evaluation of a flag whose rules are  *)
(* the objects validation admitted. Where evaluate reads a property of     *)
(* undefined or calls every on a value that is no array, it raises.        *)

createFeatureFlagEntity(id, k, name, description, enabled, defaultValue, rules, createdBy, createdAt, updatedAt, expiresAt) ==
  [id |-> id, key |-> k, name |-> name, description |-> description,
   enabled |-> enabled, defaultValue |-> defaultValue, rules |-> rules,
   createdBy |-> createdBy, createdAt |-> createdAt, updatedAt |-> updatedAt,
   expiresAt |-> expiresAt]

\* mutant: the flag is built from the arguments, not from the validated values
createFeatureFlagEntityWithValidation_rawArguments(a, clock) ==
  LET op == "createFeatureFlagEntityWithValidation"
      validKey == validateKey(a.key)
      validName == validateName(a.name)
      validRules == validateRules(a.rules)
  IN IF ~validKey.ok THEN Fail(op, validKey.error)
     ELSE IF ~validName.ok THEN Fail(op, validName.error)
     ELSE IF ~validRules.ok THEN Fail(op, validRules.error)
     ELSE Ok(op, createFeatureFlagEntity(
                   a.id, a.key, a.name, a.description, a.enabled,
                   a.defaultValue, a.rules, a.createdBy, clock, clock,
                   a.expiresAt))

\* Effect.all([validateKey, validateName, validateRules]) runs the three in
\* order and fails with the first failure; createdAt and updatedAt default to
\* new Date()
createFeatureFlagEntityWithValidation(a, clock) ==
  LET op == "createFeatureFlagEntityWithValidation"
      validKey == validateKey(a.key)
      validName == validateName(a.name)
      validRules == validateRules(a.rules)
  IN IF ~validKey.ok THEN Fail(op, validKey.error)
     ELSE IF ~validName.ok THEN Fail(op, validName.error)
     ELSE IF ~validRules.ok THEN Fail(op, validRules.error)
     ELSE Ok(op, createFeatureFlagEntity(
                   a.id, validKey.value, validName.value, a.description,
                   a.enabled, a.defaultValue, validRules.value, a.createdBy,
                   clock, clock, a.expiresAt))

\* a property used as a switch subject or a property key
PropertyName(x) == IF x.t = "undefined" THEN "undefined" ELSE x.v

\* const { field, operator, value } = condition
conditionOf(c) ==
  [field |-> PropertyName(c.v.field), operator |-> PropertyName(c.v.operator),
   value |-> c.v.value]

\* evaluateRule on a rule object: rule.conditions.every(...) raises when
\* conditions is no array, the destructuring raises on a hole, and every
\* stops at the first condition that is false
ruleOutcome(rule, context) ==
  IF ~IsArray(rule.v.conditions) THEN "raise"
  ELSE LET cs == rule.v.conditions.v.elems
           stop == {i \in 1..Len(cs) :
                      cs[i].t = "undefined"
                        \/ ~evaluateCondition(conditionOf(cs[i]), context)}
       IN IF stop = {} THEN "match"
          ELSE IF cs[CHOOSE i \in stop : \A j \in stop : i <= j].t = "undefined"
          THEN "raise"
          ELSE "skip"

Raised == Fail("evaluate", "TypeError")
Returned(x) == Ok("evaluate", x)

\* the loop of evaluate over the sorted rule objects
RECURSIVE scanRules(_, _, _)
scanRules(sortedRules, context, dflt) ==
  IF sortedRules = <<>> THEN Returned(dflt)
  ELSE LET o == ruleOutcome(Head(sortedRules).rule, context)
       IN IF o = "raise" THEN Raised
          ELSE IF o = "match" THEN Returned(Head(sortedRules).rule.v.value)
          ELSE scanRules(Tail(sortedRules), context, dflt)

\* the priority the comparator subtracts; a priority that is no number makes
\* the difference NaN, which sort takes for 0
priorityOf(rule) ==
  IF rule.v.priority.t = "number" THEN rule.v.priority.v ELSE 0

\* evaluate(flag, context) on a flag holding rule objects
evaluateOrRaise(flag, context, clock) ==
  IF ~canEvaluate(flag, clock) THEN Returned(Bool(flag.defaultValue))
  ELSE IF ~IsArray(flag.rules) THEN Raised
  ELSE LET rs == flag.rules.v.elems
           keyed == [i \in 1..Len(rs) |->
                       [priority |-> priorityOf(rs[i]), rule |-> rs[i]]]
       IN scanRules(sortRules(keyed), context, Bool(flag.defaultValue))

----------------------------------------------------------------------------
(* Specification of construction: createFeatureFlagEntityWithValidation on *)
(* arguments good and bad, then evaluate on the flag it yields.            *)

NAME1 == <<"F", "l", "a", "g">>
NAME2 == <<"N", "e", "w">>

\* rule objects that differ in what evaluation sees, and malformed ones
OtherRule ==
  Obj([GoodRule.v EXCEPT !.id = Str("rule-2"), !.value = Bool(FALSE),
                         !.priority = Num(2), !.conditions = Arr(20, <<>>)])
RoleRule ==
  Obj([GoodRule.v EXCEPT !.id = Str("rule-3"), !.priority = Num(0),
         !.conditions =
            Arr(23, <<Obj([field |-> Str("role"), operator |-> Str("not_equals"),
                           value |-> Bool(FALSE)]),
                      GoodCondition>>)])

EntityRuleVariants ==
  {GoodRule, OtherRule, RoleRule,
   Obj([GoodRule.v EXCEPT !.conditions = Undefined]),
   Obj([GoodRule.v EXCEPT !.conditions = Str("none")]),
   Obj([GoodRule.v EXCEPT !.conditions = Arr(22, <<GoodCondition, Undefined>>)]),
   Obj([GoodRule.v EXCEPT !.value = Str("true")]),
   Obj([GoodRule.v EXCEPT !.priority = Undefined])}

EntityRuleLists ==
  {Undefined} \cup
  {Arr(30, es) :
     es \in UNION {[1..n -> EntityRuleVariants] : n \in 0..MaxRawRules}}

EntityKeys == {<<>>, KEY1, <<"k", " ", "1">>, <<"K", "_", "2", "-", "x">>}
EntityNames == {<<>>, <<" ", " ">>, NAME1, <<" ", "F", " ", "x", "\n">>}

CreateArgs ==
  {[op |-> "create", id |-> "flag-1", key |-> k, name |-> n,
    description |-> "", enabled |-> e, defaultValue |-> d, rules |-> rs,
    createdBy |-> "user-1", expiresAt |-> x] :
   k \in EntityKeys, n \in EntityNames, e \in BOOLEAN, d \in BOOLEAN,
   rs \in EntityRuleLists, x \in {NoDate, Date(0)}}

EntityContexts ==
  {EmptyContext, [EmptyContext EXCEPT !.userId = Str(U1)],
   [EmptyContext EXCEPT !.userId = Str(U2), !.userRole = Str(ADMIN)]}

InitCreate ==
  /\ repo = {}
  /\ ctx \in EntityContexts
  /\ now = 1
  /\ key = <<>>
  /\ cond = NoCond
  /\ arg \in CreateArgs
  /\ pc = "start"
  /\ out = NoOut

\* createFeatureFlagEntityWithValidation(id, key, name, ...): the flag it
\* yields is the value the caller holds afterwards
CreateWithValidation ==
  /\ pc = "start"
  /\ LET created == createFeatureFlagEntityWithValidation(arg, now)
     IN /\ out' = created
        /\ repo' = IF created.ok THEN {created.value} ELSE {}
        /\ pc' = IF created.ok THEN "created" ELSE "done"
  /\ UNCHANGED <<ctx, now, key, cond, arg>>

\* evaluate(flag, context) on the flag just created
EvaluateCreated ==
  /\ pc = "created"
  /\ \E f \in repo : out' = evaluateOrRaise(f, ctx, now)
  /\ pc' = "done"
  /\ UNCHANGED <<repo, ctx, now, key, cond, arg>>

NextCreate == CreateWithValidation \/ EvaluateCreated

SpecCreate == InitCreate /\ [][NextCreate]_vars

----------------------------------------------------------------------------
(* Properties of construction (SpecCreate) *)

CreateOp == "createFeatureFlagEntityWithValidation"

\* the flag the construction yielded
CreatedFlag == CHOOSE f \in repo : TRUE

\* a validated rule object as the FlagRule evaluation works on
asFlagRule(r) ==
  [id |-> r.v.id.v, type |-> r.v.type.v,
   conditions |->
     IF r.v.conditions.t = "array"
     THEN [k \in 1..Len(r.v.conditions.v.elems) |->
             IF r.v.conditions.v.elems[k].t = "object"
             THEN conditionOf(r.v.conditions.v.elems[k])
             ELSE NoCond]
     ELSE <<>>,
   value |-> r.v.value.v, priority |-> r.v.priority.v]

asFlag(f) ==
  [f EXCEPT !.rules = [i \in 1..Len(f.rules.v.elems) |->
                         asFlagRule(f.rules.v.elems[i])]]

\* C12: evaluate of a flag that passed validation returns a boolean for
\* every context, the all-absent one included, and never raises; the boolean
\* is the one the evaluation of its rules by priority gives.
C12_EvaluateIsTotal ==
  (pc = "done" /\ out.op = "evaluate") =>
    /\ out.ok
    /\ out.value.t = "boolean"
    /\ out.value.v = evaluate(asFlag(CreatedFlag), ctx, now)

\* every field of the context absent, a live flag with two rules, none of
\* which matches
C12_Witness ==
  /\ pc = "done" /\ out.op = "evaluate"
  /\ ctx = EmptyContext
  /\ CreatedFlag.enabled /\ ~CreatedFlag.expiresAt.set
  /\ CreatedFlag.rules.v.elems = <<GoodRule, RoleRule>>
  /\ out.ok /\ out.value = Bool(CreatedFlag.defaultValue)

\* a rule with a condition on the absent role matches and decides
C12_WitnessRuleDecides ==
  /\ pc = "done" /\ out.op = "evaluate"
  /\ ctx.userId = Str(U1) /\ ctx.userRole = Undefined
  /\ CreatedFlag.enabled /\ ~CreatedFlag.expiresAt.set
  /\ CreatedFlag.rules.v.elems = <<RoleRule>>
  /\ ~CreatedFlag.defaultValue
  /\ out.ok /\ out.value = Bool(TRUE)

\* C17: createFeatureFlagEntityWithValidation yields a flag exactly when key,
\* name and rules each pass their validator; the flag holds the trimmed key
\* and name and the rules given; when one of the three fails the construction
\* fails and there is no flag.
C17_CreateAllOrNothing ==
  (pc \in {"created", "done"} /\ out.op = CreateOp) =>
    /\ out.ok <=> /\ validateKey(arg.key).ok
                  /\ validateName(arg.name).ok
                  /\ validateRules(arg.rules).ok
    /\ out.ok =>
         /\ repo = {out.value}
         /\ IsTrimOf(out.value.key, arg.key)
         /\ IsTrimOf(out.value.name, arg.name)
         /\ out.value.rules = arg.rules
    /\ ~out.ok => repo = {}

\* a padded name: the flag holds it trimmed
C17_Witness ==
  /\ pc = "created" /\ out.op = CreateOp /\ out.ok
  /\ arg.name = <<" ", "F", " ", "x", "\n">>
  /\ out.value.name = <<"F", " ", "x">>
  /\ out.value.key = arg.key

\* key and name are good, the rules are not: nothing is built
C17_WitnessRulesFail ==
  /\ pc = "done" /\ out.op = CreateOp /\ ~out.ok
  /\ validateKey(arg.key).ok /\ validateName(arg.name).ok
  /\ out.error = "Each rule must have conditions array"
  /\ repo = {}

----------------------------------------------------------------------------
(* updateFeatureFlagEntity(flag, updates): the properties of the update    *)
(* object are JavaScript values, Undefined when the update leaves the      *)
(* field out; expiresAt is a date or none.                                 *)

\* a ?? b
Coalesce(a, b) == IF a.t = "undefined" THEN b ELSE a.v

\* the flag both branches of the function build
updatedEntity(flag, updates, clock) ==
  createFeatureFlagEntity(
    flag.id,
    Coalesce(updates.key, flag.key),
    Coalesce(updates.name, flag.name),
    Coalesce(updates.description, flag.description),
    Coalesce(updates.enabled, flag.enabled),
    Coalesce(updates.defaultValue, flag.defaultValue),
    IF updates.rules.t = "undefined" THEN flag.rules ELSE updates.rules,
    flag.createdBy,
    flag.createdAt,
    clock,
    IF updates.expiresAt.set THEN updates.expiresAt ELSE flag.expiresAt)

\* the validations pushed for the fields of the update that are truthy
updateValidations(updates) ==
  (IF ~Falsy(updates.key) THEN <<validateKey(updates.key.v)>> ELSE <<>>)
    \o (IF ~Falsy(updates.name) THEN <<validateName(updates.name.v)>> ELSE <<>>)
    \o (IF ~Falsy(updates.rules) THEN <<validateRules(updates.rules)>> ELSE <<>>)

\* mutant: updatedAt is carried over from the flag
updateFeatureFlagEntity_keepsUpdatedAt(flag, updates, clock) ==
  LET op == "updateFeatureFlagEntity"
      validations == updateValidations(updates)
      failed == {i \in 1..Len(validations) : ~validations[i].ok}
  IN IF failed = {} THEN Ok(op, updatedEntity(flag, updates, flag.updatedAt))
     ELSE Fail(op, validations[CHOOSE i \in failed :
                                 \A j \in failed : i <= j].error)

\* Effect.all(validations) fails with the first failure; its results are
\* dropped by the map, and with no validations the flag is built directly
updateFeatureFlagEntity(flag, updates, clock) ==
  LET op == "updateFeatureFlagEntity"
      validations == updateValidations(updates)
      failed == {i \in 1..Len(validations) : ~validations[i].ok}
  IN IF failed = {} THEN Ok(op, updatedEntity(flag, updates, clock))
     ELSE Fail(op, validations[CHOOSE i \in failed :
                                 \A j \in failed : i <= j].error)

----------------------------------------------------------------------------
(* Specification of updates: a valid flag, and updates applied to it and   *)
(* to the flags the updates return.                                        *)

MaxUpdates == 2

ValidFlags ==
  {createFeatureFlagEntity("flag-1", KEY1, NAME1, "", TRUE, FALSE, rs,
                           "user-1", 0, 0, x) :
     rs \in {Arr(30, <<>>), Arr(30, <<GoodRule>>)}, x \in {NoDate, Date(5)}}

\* description, enabled, defaultValue and expiresAt of an update
UpdateMetadata ==
  {[description |-> Undefined, enabled |-> Undefined,
    defaultValue |-> Undefined, expiresAt |-> NoDate],
   [description |-> Str("text"), enabled |-> Bool(FALSE),
    defaultValue |-> Undefined, expiresAt |-> Date(9)]}

Updates ==
  {[key |-> k, name |-> n, rules |-> rs, description |-> m.description,
    enabled |-> m.enabled, defaultValue |-> m.defaultValue,
    expiresAt |-> m.expiresAt] :
   k \in {Undefined, Str(<<>>), Str(KEY2), Str(<<"k", "!">>)},
   n \in {Undefined, Str(<<>>), Str(NAME2), Str(<<" ", "N", " ">>)},
   rs \in {Undefined, Arr(31, <<OtherRule>>),
           Arr(31, <<Obj([GoodRule.v EXCEPT !.conditions = Undefined])>>)},
   m \in UpdateMetadata}

InitUpdate ==
  /\ repo \in {{f} : f \in ValidFlags}
  /\ ctx = EmptyContext
  /\ now = 1
  /\ key = <<>>
  /\ cond = NoCond
  /\ arg = NoArg
  /\ pc = "start"
  /\ out = NoOut

\* updateFeatureFlagEntity(flag, updates) at a later reading of the clock;
\* the caller then holds the flag it passed and the flag it got back
UpdateEntity ==
  /\ now <= MaxUpdates
  /\ now' = now + 1
  /\ \E f \in repo : \E u \in Updates :
       LET updated == updateFeatureFlagEntity(f, u, now')
       IN /\ arg' = [op |-> "updateFeatureFlagEntity", flag |-> f, updates |-> u]
          /\ out' = updated
          /\ repo' = IF updated.ok THEN {f, updated.value} ELSE repo
  /\ pc' = "updated"
  /\ UNCHANGED <<ctx, key, cond>>

NextUpdate == UpdateEntity

SpecUpdate == InitUpdate /\ [][NextUpdate]_vars

----------------------------------------------------------------------------
(* Properties of updates (SpecUpdate) *)

UpdateOp == "updateFeatureFlagEntity"

\* key, name and rules of a flag pass their validators and the name is
\* trimmed
ValidFlag(f) ==
  /\ validateKey(f.key).ok
  /\ validateName(f.name).ok /\ f.name = trim(f.name)
  /\ validateRules(f.rules).ok

\* C18 (as claimed): an update of a valid flag fails or returns a flag whose
\* key, name and rules pass their validators and whose name is trimmed, so
\* that no sequence of updates from a valid flag yields an invalid one.
C18_UpdateKeepsFlagValid ==
  \A f \in repo : ValidFlag(f)

\* a field the update object leaves out
Absent(x) == x.t = "undefined"

\* C19: a successful update, the empty one included, returns a flag whose
\* updatedAt is the time of the update, whose id, createdBy and createdAt are
\* the original's and whose fields the update does not supply are the
\* original's; the original flag is still what it was.
C19_UpdateFrame ==
  (pc = "updated" /\ out.op = UpdateOp /\ out.ok) =>
    LET f == arg.flag
        u == arg.updates
        g == out.value
    IN /\ g.updatedAt = now
       /\ g.id = f.id /\ g.createdBy = f.createdBy /\ g.createdAt = f.createdAt
       /\ Absent(u.key) => g.key = f.key
       /\ Absent(u.name) => g.name = f.name
       /\ Absent(u.description) => g.description = f.description
       /\ Absent(u.enabled) => g.enabled = f.enabled
       /\ Absent(u.defaultValue) => g.defaultValue = f.defaultValue
       /\ Absent(u.rules) => g.rules = f.rules
       /\ ~u.expiresAt.set => g.expiresAt = f.expiresAt
       /\ f \in repo /\ g \in repo

\* the empty update: only updatedAt moves
C19_Witness ==
  /\ pc = "updated" /\ out.op = UpdateOp /\ out.ok
  /\ Absent(arg.updates.key) /\ Absent(arg.updates.name)
  /\ Absent(arg.updates.rules) /\ Absent(arg.updates.description)
  /\ Absent(arg.updates.enabled) /\ Absent(arg.updates.defaultValue)
  /\ ~arg.updates.expiresAt.set
  /\ out.value = [arg.flag EXCEPT !.updatedAt = now]
  /\ out.value.updatedAt > arg.flag.updatedAt

\* a second update, of name and enabled only, on the flag a first returned
C19_WitnessSecondUpdate ==
  /\ pc = "updated" /\ out.op = UpdateOp /\ out.ok
  /\ now = 3 /\ arg.flag.updatedAt = 2
  /\ arg.updates.name = Str(NAME2) /\ arg.updates.enabled = Bool(FALSE)
  /\ Absent(arg.updates.key) /\ out.value.key = arg.flag.key
  /\ out.value.name = NAME2 /\ ~out.value.enabled

----------------------------------------------------------------------------
(* The update use case on the stored flags: request validation, findById,  *)
(* repository.update, response. The store is the feature_flags table, one  *)
(* row per id, key unique.                                                 *)

\* toDomainEntityWithValidation(model): the row through
\* createFeatureFlagEntityWithValidation, with the row's own dates
toDomainEntityWithValidation(model) ==
  LET entity == createFeatureFlagEntityWithValidation(model, model.createdAt)
  IN IF entity.ok
     THEN [entity EXCEPT !.value.updatedAt = model.updatedAt]
     ELSE entity

\* UpdateFeatureFlagRequestSchema.parse(dto): key, name and description, when
\* present, are strings of at least one character
validateUpdateFeatureFlagRequest(dto) ==
  /\ dto.key.t = "undefined" \/ (dto.key.t = "string" /\ Len(dto.key.v) >= 1)
  /\ dto.name.t = "undefined" \/ (dto.name.t = "string" /\ Len(dto.name.v) >= 1)
  /\ dto.description.t = "undefined"
       \/ (dto.description.t = "string" /\ Len(dto.description.v) >= 1)
  /\ dto.enabled.t \in {"undefined", "boolean"}
  /\ dto.defaultValue.t \in {"undefined", "boolean"}
  /\ dto.rules.t \in {"undefined", "array"}

\* the UPDATE statement hits the unique constraint on key
keyTaken(store, id, updates) ==
  /\ updates.key.t # "undefined"
  /\ \E r \in store : r.id # id /\ r.key = updates.key.v

\* repository.update(id, otherUpdates): the columns of the update other than
\* rules are written to the row, and updatedAt with them
writeRow(row, updates, clock) ==
  [row EXCEPT
     !.key = Coalesce(updates.key, row.key),
     !.name = Coalesce(updates.name, row.name),
     !.description = Coalesce(updates.description, row.description),
     !.enabled = Coalesce(updates.enabled, row.enabled),
     !.defaultValue = Coalesce(updates.defaultValue, row.defaultValue),
     !.expiresAt = IF updates.expiresAt.set THEN updates.expiresAt
                   ELSE row.expiresAt,
     !.updatedAt = clock]

\* the repository's update: write, read the row back, then validate it
repositoryUpdate(store, id, updates, clock) ==
  LET op == "updateFeatureFlagUseCase"
      written == {IF r.id = id THEN writeRow(r, updates, clock) ELSE r :
                    r \in store}
      found == {r \in written : r.id = id}
  IN IF keyTaken(store, id, updates) \/ found = {}
     THEN [result |-> Fail(op, "Failed to update feature flag"), store |-> store]
     ELSE [result |-> [toDomainEntityWithValidation(CHOOSE r \in found : TRUE)
                         EXCEPT !.op = op],
           store |-> written]

\* featureFlagRepository.findById(id): null, or the row through validation
findById(store, id) ==
  IF \E r \in store : r.id = id
  THEN [found |-> TRUE,
        entity |-> toDomainEntityWithValidation(CHOOSE r \in store : r.id = id)]
  ELSE [found |-> FALSE, entity |-> Fail("findById", "")]

updateFeatureFlagUseCase(id, dto, store, clock) ==
  LET op == "updateFeatureFlagUseCase" IN
  IF id = "" THEN
    [result |-> Fail(op, "Feature flag ID is required"), store |-> store]
  ELSE IF ~validateUpdateFeatureFlagRequest(dto) THEN
    [result |-> Fail(op, "Validation failed"), store |-> store]
  ELSE LET existing == findById(store, id) IN
    IF ~existing.found THEN
      [result |-> Fail(op, "Feature flag not found"), store |-> store]
    ELSE IF ~existing.entity.ok THEN
      [result |-> Fail(op, existing.entity.error), store |-> store]
    ELSE repositoryUpdate(store, id, dto, clock)

----------------------------------------------------------------------------
(* Specification of the update use case: a store of valid flags, and update *)
(* requests with good and bad fields made against it one after another.    *)

StoredFlag1 ==
  createFeatureFlagEntity("flag-1", KEY1, NAME1, "", TRUE, FALSE,
                          Arr(30, <<GoodRule>>), "user-1", 0, 0, NoDate)
StoredFlag2 ==
  createFeatureFlagEntity("flag-2", KEY2, NAME2, "", FALSE, TRUE,
                          Arr(32, <<>>), "user-1", 0, 0, Date(5))

KEY3 == <<"k", "3">>

UpdateDtos ==
  {[key |-> k, name |-> n, rules |-> rs, description |-> m.description,
    enabled |-> m.enabled, defaultValue |-> m.defaultValue,
    expiresAt |-> m.expiresAt] :
   k \in {Undefined, Str(<<>>), Str(KEY2), Str(KEY3), Str(<<"k", "!">>)},
   n \in {Undefined, Str(NAME2), Str(NameBody(NameMaxLength + 1, "x"))},
   rs \in {Undefined, Arr(35, <<OtherRule>>),
           Arr(31, <<Obj([GoodRule.v EXCEPT !.conditions = Undefined])>>)},
   m \in UpdateMetadata}

FlagIds == {"", "flag-1", "flag-9"}

InitUpdateUseCase ==
  /\ repo \in {{StoredFlag1}, {StoredFlag1, StoredFlag2}}
  /\ ctx = EmptyContext
  /\ now = 1
  /\ key = <<>>
  /\ cond = NoCond
  /\ arg = NoArg
  /\ pc = "start"
  /\ out = NoOut

\* updateFeatureFlagUseCase(id, dto, featureFlagRepository) at a later
\* reading of the clock; arg keeps the request and the store it met
UpdateUseCase ==
  /\ now <= MaxUpdates
  /\ now' = now + 1
  /\ \E id \in FlagIds : \E dto \in UpdateDtos :
       LET done == updateFeatureFlagUseCase(id, dto, repo, now')
       IN /\ arg' = [op |-> "updateFeatureFlagUseCase", id |-> id, dto |-> dto,
                     before |-> repo]
          /\ out' = done.result
          /\ repo' = done.store
  /\ pc' = "updated"
  /\ UNCHANGED <<ctx, key, cond>>

NextUpdateUseCase == UpdateUseCase

SpecUpdateUseCase == InitUpdateUseCase /\ [][NextUpdateUseCase]_vars

----------------------------------------------------------------------------
(* Properties of the update use case (SpecUpdateUseCase) *)

\* the request supplies a key, name or rules that its validator refuses
SuppliesInvalidField(dto) ==
  \/ dto.key.t = "string" /\ ~validateKey(dto.key.v).ok
  \/ dto.name.t = "string" /\ ~validateName(dto.name.v).ok
  \/ dto.rules.t = "array" /\ ~validateRules(dto.rules).ok

\* C20 (as claimed): when the update use case fails on a request that
\* supplies an invalid key, name or rules, the stored flag has exactly the
\* fields it had before the call.
C20_FailedUpdateChangesNothing ==
  (pc = "updated" /\ out.op = "updateFeatureFlagUseCase" /\ ~out.ok
     /\ SuppliesInvalidField(arg.dto))
    => repo = arg.before

----------------------------------------------------------------------------
(* The create use case on the stored flags: request validation, then the   *)
(* repository's create, which saves the row and only then takes it through *)
(* the validating constructor.                                             *)

KeyMaxLength == 100
RequestNameMaxLength == 200
DescriptionMaxLength == 500

\* CreateFeatureFlagRequestSchema.parse(dto)
createRequestParses(dto) ==
  /\ dto.key.t = "string"
  /\ Len(dto.key.v) >= 1 /\ Len(dto.key.v) <= KeyMaxLength
  /\ dto.name.t = "string"
  /\ Len(dto.name.v) >= 1 /\ Len(dto.name.v) <= RequestNameMaxLength
  /\ dto.description.t = "string"
  /\ Len(dto.description.v) >= 1
  /\ Len(dto.description.v) <= DescriptionMaxLength
  /\ dto.enabled.t \in {"undefined", "boolean"}
  /\ dto.defaultValue.t \in {"undefined", "boolean"}
  /\ dto.rules.t \in {"undefined", "array"}
  /\ dto.createdBy.t = "string" /\ Len(dto.createdBy.v) >= 1

\* the parsed request: enabled and defaultValue default to false, rules to []
parsedCreateRequest(dto) ==
  [key |-> dto.key.v, name |-> dto.name.v, description |-> dto.description.v,
   enabled |-> IF dto.enabled.t = "undefined" THEN FALSE ELSE dto.enabled.v,
   defaultValue |-> IF dto.defaultValue.t = "undefined" THEN FALSE
                    ELSE dto.defaultValue.v,
   rules |-> IF dto.rules.t = "undefined" THEN Arr(33, <<>>) ELSE dto.rules,
   createdBy |-> dto.createdBy.v, expiresAt |-> dto.expiresAt]

\* validateCreateFeatureFlagRequest(dto): the schema, then the key pattern
validateCreateFeatureFlagRequest(dto) ==
  LET op == "createFeatureFlagUseCase" IN
  IF ~createRequestParses(dto) THEN Fail(op, "Validation failed")
  ELSE IF dto.key.v # <<>> /\ ~matchesKeyPattern(dto.key.v)
  THEN Fail(op, "Key can only contain alphanumeric characters, hyphens, and underscores")
  ELSE Ok(op, parsedCreateRequest(dto))

\* the primary key the table generates for a new row
FlagIdPool == <<"flag-1", "flag-2", "flag-3", "flag-4">>
generatedId(store) ==
  LET free == {i \in 1..Len(FlagIdPool) :
                 \A r \in store : r.id # FlagIdPool[i]}
  IN FlagIdPool[CHOOSE i \in free : \A j \in free : i <= j]

\* repository.create(flagData) and repository.save(newFlag): the new row,
\* with its generated id and dates
savedRow(store, data, clock) ==
  createFeatureFlagEntity(generatedId(store), data.key, data.name,
                          data.description, data.enabled, data.defaultValue,
                          data.rules, data.createdBy, clock, clock,
                          data.expiresAt)

\* the repository's create: the row is saved (the unique constraint on key
\* refuses a second row with a key), and the saved row is then validated
repositoryCreate(store, data, clock) ==
  LET op == "createFeatureFlagUseCase"
      row == savedRow(store, data, clock)
  IN IF \E r \in store : r.key = data.key
     THEN [result |-> Fail(op, "Failed to create feature flag"),
           store |-> store]
     ELSE [result |-> [toDomainEntityWithValidation(row) EXCEPT !.op = op],
           store |-> store \cup {row}]

\* the repository's findAll: every row through validation, failing with the
\* first row that does not pass
findAll(store) ==
  LET entities == {toDomainEntityWithValidation(r) : r \in store}
  IN IF \A e \in entities : e.ok
     THEN Ok("findAll", {e.value : e \in entities})
     ELSE Fail("findAll", "Validation failed")

createFeatureFlagUseCase(dto, store, clock) ==
  LET validatedDto == validateCreateFeatureFlagRequest(dto) IN
  IF ~validatedDto.ok THEN [result |-> validatedDto, store |-> store]
  ELSE repositoryCreate(store, validatedDto.value, clock)

----------------------------------------------------------------------------
(* Specification of the create use case: a store that is empty or holds a  *)
(* valid flag, and create requests with good and bad fields.               *)

MaxCreates == 2

CreateDtos ==
  {[key |-> k, name |-> n, description |-> d, enabled |-> Undefined,
    defaultValue |-> Bool(TRUE), rules |-> rs, createdBy |-> Str("user-1"),
    expiresAt |-> NoDate] :
   k \in {Str(<<>>), Str(KEY1), Str(KEY3), Str(<<"k", "!">>)},
   n \in {Str(NAME1), Str(<<" ">>), Str(NameBody(NameMaxLength + 1, "x")),
          Str(NameBody(RequestNameMaxLength + 1, "x"))},
   d \in {Str(""), Str("text")},
   rs \in {Undefined, Arr(31, <<GoodRule>>),
           Arr(31, <<Obj([GoodRule.v EXCEPT !.conditions = Undefined])>>)}}

InitCreateUseCase ==
  /\ repo \in {{}, {StoredFlag1}}
  /\ ctx = EmptyContext
  /\ now = 1
  /\ key = <<>>
  /\ cond = NoCond
  /\ arg = NoArg
  /\ pc = "start"
  /\ out = NoOut

\* createFeatureFlagUseCase(dto, featureFlagRepository) at a later reading
\* of the clock; arg keeps the request and the store it met
CreateUseCase ==
  /\ now <= MaxCreates
  /\ now' = now + 1
  /\ \E dto \in CreateDtos :
       LET done == createFeatureFlagUseCase(dto, repo, now')
       IN /\ arg' = [op |-> "createFeatureFlagUseCase", dto |-> dto,
                     before |-> repo]
          /\ out' = done.result
          /\ repo' = done.store
  /\ pc' = "created"
  /\ UNCHANGED <<ctx, key, cond>>

NextCreateUseCase == CreateUseCase

SpecCreateUseCase == InitCreateUseCase /\ [][NextCreateUseCase]_vars

----------------------------------------------------------------------------
(* Properties of the create use case (SpecCreateUseCase) *)

\* C21 (as claimed): when createFeatureFlag fails on a request whose key,
\* name or rules is not valid for a flag, no flag has been added to the
\* store and findAll returns what it returned before the call.
C21_FailedCreateChangesNothing ==
  (pc = "created" /\ out.op = "createFeatureFlagUseCase" /\ ~out.ok
     /\ SuppliesInvalidField(arg.dto))
    => (repo = arg.before /\ findAll(repo) = findAll(arg.before))

----------------------------------------------------------------------------
(* toPlainObject(flag), and the flag rebuilt from the plain object's fields *)
(* through the validating constructor, all eleven arguments given.          *)

\* mutant: the plain object is built without expiresAt
toPlainObject_dropsExpiresAt(flag) ==
  [id |-> flag.id, key |-> flag.key, name |-> flag.name,
   description |-> flag.description, enabled |-> flag.enabled,
   defaultValue |-> flag.defaultValue, rules |-> flag.rules,
   createdBy |-> flag.createdBy, createdAt |-> flag.createdAt,
   updatedAt |-> flag.updatedAt, expiresAt |-> NoDate]

toPlainObject(flag) ==
  [id |-> flag.id, key |-> flag.key, name |-> flag.name,
   description |-> flag.description, enabled |-> flag.enabled,
   defaultValue |-> flag.defaultValue, rules |-> flag.rules,
   createdBy |-> flag.createdBy, createdAt |-> flag.createdAt,
   updatedAt |-> flag.updatedAt, expiresAt |-> flag.expiresAt]

\* toPlainObject on the flag just created, at a later reading of the clock
ToPlainObject ==
  /\ pc = "created"
  /\ \E f \in repo : out' = Ok("toPlainObject", toPlainObject(f))
  /\ now' = now + 1
  /\ pc' = "plain"
  /\ UNCHANGED <<repo, ctx, key, cond, arg>>

\* createFeatureFlagEntityWithValidation(plain.id, plain.key, ...,
\* plain.createdAt, plain.updatedAt, plain.expiresAt)
Rebuild ==
  /\ pc = "plain"
  /\ out' = toDomainEntityWithValidation(out.value)
  /\ pc' = "rebuilt"
  /\ UNCHANGED <<repo, ctx, now, key, cond, arg>>

NextRoundTrip == CreateWithValidation \/ ToPlainObject \/ Rebuild

SpecRoundTrip == InitCreate /\ [][NextRoundTrip]_vars

----------------------------------------------------------------------------
(* Properties of the round trip (SpecRoundTrip) *)

FlagFields ==
  {"id", "key", "name", "description", "enabled", "defaultValue", "rules",
   "createdBy", "createdAt", "updatedAt", "expiresAt"}

\* C22: for a flag built by createFeatureFlagEntityWithValidation, the plain
\* object has the flag's eleven fields with the flag's values, and the flag
\* rebuilt from it through the validating constructor exists and equals the
\* original in every field.
C22_RoundTrip ==
  /\ (pc = "plain") =>
       /\ out.ok /\ DOMAIN out.value = FlagFields
       /\ \A f \in repo : \A x \in FlagFields : out.value[x] = f[x]
  /\ (pc = "rebuilt") =>
       /\ out.ok
       /\ \A f \in repo : \A x \in FlagFields : out.value[x] = f[x]

\* a flag with a trimmed name, rules and an expiry date, rebuilt later
C22_Witness ==
  /\ pc = "rebuilt" /\ out.ok /\ now = 2
  /\ arg.name = <<" ", "F", " ", "x", "\n">>
  /\ out.value.name = <<"F", " ", "x">>
  /\ out.value.expiresAt = Date(0)
  /\ out.value.rules.v.elems # <<>>
  /\ out.value.createdAt = 1
  /\ repo = {out.value}

----------------------------------------------------------------------------
(* Repeated evaluation: two flags held by the caller are evaluated again   *)
(* and again with varying contexts while the clock moves. evaluate reads   *)
(* the flag, the context and new Date(); the sort works on a copy of       *)
(* flag.rules.                                                             *)

\* [...flag.rules].sort(...): what flag.rules holds after the sort
rulesAfterSort_inPlace(rules) == sortRules(rules)

rulesAfterSort(rules) == rules

\* the flag object after evaluate(flag, context) has returned
flagAfterEvaluate(flag, clock) ==
  IF ~canEvaluate(flag, clock) THEN flag
  ELSE [flag EXCEPT !.rules = rulesAfterSort(flag.rules)]

MaxEvaluations == 3

RepeatRuleLists ==
  {<<MkRule(1, [conditions |-> <<CondUserId>>, value |-> TRUE, priority |-> p]),
     MkRule(2, [conditions |-> cs, value |-> FALSE, priority |-> q])>> :
   p \in Priorities, q \in Priorities, cs \in {<<>>, <<CondRole>>}}

RepeatFlags ==
  {[id |-> "flag-1", key |-> KEY1, name |-> "Flag", description |-> "",
    enabled |-> TRUE, defaultValue |-> FALSE, rules |-> rs,
    createdBy |-> "user-1", createdAt |-> 0, updatedAt |-> 0,
    expiresAt |-> Date(1)] : rs \in RepeatRuleLists}

OtherFlag ==
  [id |-> "flag-2", key |-> KEY2, name |-> "Flag", description |-> "",
   enabled |-> TRUE, defaultValue |-> TRUE,
   rules |-> <<MkRule(3, [conditions |-> <<CondRole>>, value |-> FALSE,
                          priority |-> 1])>>,
   createdBy |-> "user-1", createdAt |-> 0, updatedAt |-> 0,
   expiresAt |-> NoDate]

RepeatContexts ==
  {[userId |-> Str(U1), userEmail |-> Str(EMAIL), userRole |-> Str(ADMIN),
    attributes |-> Attributes([plan |-> Str(PRO)])],
   [userId |-> Str(U2), userEmail |-> Str(EMAIL), userRole |-> Str(USER),
    attributes |-> Attributes([plan |-> Str(PRO)])]}

\* arg keeps the flags as they were handed over and the evaluations made
InitRepeat ==
  /\ repo \in {{f, OtherFlag} : f \in RepeatFlags}
  /\ ctx = EmptyContext
  /\ now = 0
  /\ key = <<>>
  /\ cond = NoCond
  /\ arg = [op |-> "evaluate", before |-> repo, log |-> {}]
  /\ pc = "start"
  /\ out = NoOut

\* mutant: the evaluation uses the context of the call before
EvaluateAgain_staleContext ==
  /\ \E f \in repo : \E c \in RepeatContexts :
       LET v == evaluate(f, ctx, now)
           entry == [flag |-> f.id, context |-> c, at |-> now, value |-> v]
       IN /\ entry \in arg.log \/ Cardinality(arg.log) < MaxEvaluations
          /\ out' = [NoOut EXCEPT !.op = "evaluate", !.ok = TRUE,
                                  !.flagKey = f.key, !.value = v]
          /\ ctx' = c
          /\ arg' = [arg EXCEPT !.log = @ \cup {entry}]
          /\ repo' = (repo \ {f}) \cup {flagAfterEvaluate(f, now)}
  /\ pc' = "evaluated"
  /\ UNCHANGED <<now, key, cond>>

\* evaluate(flag, context) on one of the flags, with one of the contexts
EvaluateAgain ==
  /\ \E f \in repo : \E c \in RepeatContexts :
       LET v == evaluate(f, c, now)
           entry == [flag |-> f.id, context |-> c, at |-> now, value |-> v]
       IN /\ entry \in arg.log \/ Cardinality(arg.log) < MaxEvaluations
          /\ out' = [NoOut EXCEPT !.op = "evaluate", !.ok = TRUE,
                                  !.flagKey = f.key, !.value = v]
          /\ ctx' = c
          /\ arg' = [arg EXCEPT !.log = @ \cup {entry}]
          /\ repo' = (repo \ {f}) \cup {flagAfterEvaluate(f, now)}
  /\ pc' = "evaluated"
  /\ UNCHANGED <<now, key, cond>>

\* new Date() reads later between two evaluations
Tick ==
  /\ now < MaxTime
  /\ now' = now + 1
  /\ UNCHANGED <<repo, ctx, key, cond, arg, pc, out>>

NextRepeat == EvaluateAgain \/ Tick

SpecRepeat == InitRepeat /\ [][NextRepeat]_vars

----------------------------------------------------------------------------
(* Properties of repeated evaluation (SpecRepeat) *)

\* the flag an entry of the log is about, as it was handed over
FlagOf(entry) == CHOOSE f \in arg.before : f.id = entry.flag

C27_EvaluateKeepsFlag ==
  /\ repo = arg.before
  /\ \A f \in repo : \A g \in arg.before :
       f.id = g.id =>
         /\ Len(f.rules) = Len(g.rules)
         /\ \A i \in 1..Len(g.rules) : f.rules[i] = g.rules[i]

\* a flag whose rules are not in priority order has gone through the sort
\* twice, and a rule lower in the array decided
C27_Witness ==
  /\ pc = "evaluated" /\ out.flagKey = KEY1 /\ ~out.value
  /\ \E f \in repo :
       /\ f.key = KEY1 /\ canEvaluate(f, now)
       /\ f.rules[1].priority < f.rules[2].priority
       /\ sortRules(f.rules) # f.rules
       /\ Cardinality({e \in arg.log : e.flag = f.id}) >= 2

----------------------------------------------------------------------------
(* The in-memory flag store of the service: mockFlags, an array of flags,  *)
(* with createFlag, updateFlag and deleteFlag.                             *)

NEW_FEATURE == <<"n", "e", "w", "-", "f", "e", "a", "t", "u", "r", "e">>

\* the flag mockFlags holds when the module is loaded
MockFlag ==
  [id |-> <<"1">>, key |-> NEW_FEATURE, name |-> NAME2, description |-> "",
   enabled |-> TRUE, defaultValue |-> FALSE,
   rules |-> <<[id |-> "rule1", type |-> "user_id",
                conditions |-> <<[field |-> "userId", operator |-> "equals",
                                  value |-> Str(<<"1">>)]>>,
                value |-> TRUE, priority |-> 1],
               [id |-> "rule2", type |-> "role",
                conditions |-> <<[field |-> "role", operator |-> "equals",
                                  value |-> Str(ADMIN)]>>,
                value |-> TRUE, priority |-> 2]>>,
   createdBy |-> "1", createdAt |-> 0, updatedAt |-> 0, expiresAt |-> NoDate]

DecimalDigits == <<"0", "1", "2", "3", "4", "5", "6", "7", "8", "9">>

\* Number.prototype.toString() of a natural number
RECURSIVE toString(_)
toString(n) ==
  IF n < Len(DecimalDigits) THEN <<DecimalDigits[n + 1]>>
  ELSE toString(n \div Len(DecimalDigits))
         \o <<DecimalDigits[(n % Len(DecimalDigits)) + 1]>>

\* mockFlags.find(flag => flag.key === key): the first such flag
findFlagByKey(flags, k) ==
  LET hits == {i \in 1..Len(flags) : flags[i].key = k}
  IN IF hits = {} THEN [found |-> FALSE, flag |-> MockFlag]
     ELSE [found |-> TRUE,
           flag |-> flags[CHOOSE i \in hits : \A j \in hits : i <= j]]

\* mockFlags.findIndex(flag => flag.id === id), 0 for -1
findIndex(flags, id) ==
  LET hits == {i \in 1..Len(flags) : flags[i].id = id}
  IN IF hits = {} THEN 0 ELSE CHOOSE i \in hits : \A j \in hits : i <= j

createFlag(flags, flagData, clock) ==
  LET newFlag == [flagData EXCEPT !.id = toString(Len(flags) + 1),
                                  !.createdAt = clock, !.updatedAt = clock]
  IN IF findFlagByKey(flags, flagData.key).found
     THEN [result |-> Fail("createFlag", "already exists"), flags |-> flags]
     ELSE [result |-> Ok("createFlag", newFlag),
           flags |-> Append(flags, newFlag)]

\* { ...mockFlags[flagIndex], ...updates, id, updatedAt: new Date() }
spreadUpdates(flag, updates, id, clock) ==
  [flag EXCEPT !.key = Coalesce(updates.key, flag.key),
               !.name = Coalesce(updates.name, flag.name),
               !.enabled = Coalesce(updates.enabled, flag.enabled),
               !.id = id,
               !.updatedAt = clock]

updateFlag(flags, id, updates, clock) ==
  LET flagIndex == findIndex(flags, id) IN
  IF flagIndex = 0
  THEN [result |-> Fail("updateFlag", "not found"), flags |-> flags]
  ELSE LET updatedFlag == spreadUpdates(flags[flagIndex], updates, id, clock)
       IN [result |-> Ok("updateFlag", updatedFlag),
           flags |-> [flags EXCEPT ![flagIndex] = updatedFlag]]

\* mockFlags.splice(flagIndex, 1)
deleteFlag(flags, id) ==
  LET flagIndex == findIndex(flags, id) IN
  IF flagIndex = 0
  THEN [result |-> Fail("deleteFlag", "not found"), flags |-> flags]
  ELSE [result |-> Ok("deleteFlag", TRUE),
        flags |-> SubSeq(flags, 1, flagIndex - 1)
                    \o SubSeq(flags, flagIndex + 1, Len(flags))]

----------------------------------------------------------------------------
(* Specification of the in-memory store: mockFlags as loaded, and calls of *)
(* createFlag, updateFlag and deleteFlag one after another.                *)

MaxStoreOps == 3

StoreKeys == {NEW_FEATURE, KEY2}

\* flagData of createFlag: a flag without id and dates
StoreFlagData ==
  {[MockFlag EXCEPT !.id = <<>>, !.key = k, !.name = NAME1, !.rules = <<>>] :
   k \in StoreKeys}

StoreIds == {toString(n) : n \in 1..MaxStoreOps}

StoreUpdates ==
  {[id |-> i, key |-> k, name |-> n, enabled |-> Undefined] :
   i \in {Undefined, Str(<<"9">>)},
   k \in {Undefined} \cup {Str(x) : x \in StoreKeys},
   n \in {Undefined, Str(NAME1)}}

InitStore ==
  /\ repo = <<MockFlag>>
  /\ ctx = EmptyContext
  /\ now = 0
  /\ key = <<>>
  /\ cond = NoCond
  /\ arg = NoArg
  /\ pc = "start"
  /\ out = NoOut

CreateFlag ==
  /\ now < MaxStoreOps
  /\ now' = now + 1
  /\ \E flagData \in StoreFlagData :
       LET done == createFlag(repo, flagData, now')
       IN /\ arg' = [op |-> "createFlag", flagData |-> flagData,
                     before |-> repo]
          /\ out' = done.result
          /\ repo' = done.flags
  /\ pc' = "done"
  /\ UNCHANGED <<ctx, key, cond>>

UpdateFlag ==
  /\ now < MaxStoreOps
  /\ now' = now + 1
  /\ \E id \in StoreIds : \E updates \in StoreUpdates :
       LET done == updateFlag(repo, id, updates, now')
       IN /\ arg' = [op |-> "updateFlag", id |-> id, updates |-> updates,
                     before |-> repo]
          /\ out' = done.result
          /\ repo' = done.flags
  /\ pc' = "done"
  /\ UNCHANGED <<ctx, key, cond>>

DeleteFlag ==
  /\ now < MaxStoreOps
  /\ now' = now + 1
  /\ \E id \in StoreIds :
       LET done == deleteFlag(repo, id)
       IN /\ arg' = [op |-> "deleteFlag", id |-> id, before |-> repo]
          /\ out' = done.result
          /\ repo' = done.flags
  /\ pc' = "done"
  /\ UNCHANGED <<ctx, key, cond>>

NextStore == CreateFlag \/ UpdateFlag \/ DeleteFlag

SpecStore == InitStore /\ [][NextStore]_vars

----------------------------------------------------------------------------
(* Properties of the in-memory store (SpecStore) *)

\* C24 (as claimed): no two stored flags have the same id, and updateFlag
\* keeps the id of the flag it updates, whatever id the update object names.
C24_IdsUniqueAndStable ==
  /\ \A i \in 1..Len(repo) : \A j \in 1..Len(repo) :
       repo[i].id = repo[j].id => i = j
  /\ (pc = "done" /\ arg.op = "updateFlag" /\ out.ok) =>
       /\ out.value.id = arg.id
       /\ Len(repo) = Len(arg.before)
       /\ \A i \in 1..Len(repo) : repo[i].id = arg.before[i].id

\* C25 (as claimed): no two stored flags have the same key, and createFlag
\* with a key already in the store fails with the 'already exists' error
\* and leaves the store unchanged.
C25_KeysUnique ==
  /\ \A i \in 1..Len(repo) : \A j \in 1..Len(repo) :
       repo[i].key = repo[j].key => i = j
  /\ (pc = "done" /\ arg.op = "createFlag"
        /\ \E i \in 1..Len(arg.before) : arg.before[i].key = arg.flagData.key)
       => (~out.ok /\ out.error = "already exists" /\ repo = arg.before)

----------------------------------------------------------------------------
(* Rule priority as the API schema documents it (Spec) *)

\* the two rules that match, the first with the lower priority number
MatchingPairs ==
  {p \in Matching \X Matching :
     /\ Matching = {p[1], p[2]}
     /\ TheFlag.rules[p[1]].priority < TheFlag.rules[p[2]].priority}

----------------------------------------------------------------------------
(* The rules of an update request (SpecUpdateUseCase) *)

\* C28 (as claimed): after a successful update whose request includes rules,
\* the returned flag and a later findById have the supplied rules, and the
\* flag evaluates as its supplied rules decide.
C28_UpdateReplacesRules ==
  (pc = "updated" /\ out.op = "updateFeatureFlagUseCase" /\ out.ok
     /\ arg.dto.rules.t = "array" /\ validateRules(arg.dto.rules).ok)
    => /\ out.value.rules = arg.dto.rules
       /\ findById(repo, arg.id).entity.value.rules = arg.dto.rules
       /\ \A c \in EntityContexts :
            evaluateOrRaise(out.value, c, now)
              = evaluateOrRaise([out.value EXCEPT !.rules = arg.dto.rules],
                                c, now)

----------------------------------------------------------------------------
(* The evaluation of the in-memory service: its own evaluateCondition,     *)
(* evaluateRule and evaluateFlag, which looks the flag up in mockFlags.    *)

\* the switch (field) of the service's evaluateCondition
serviceContextValue(field, context) ==
  CASE field = "userId" -> context.userId
    [] field = "userEmail" -> context.userEmail
    [] field = "role" -> context.userRole
    [] OTHER -> AttributeLookup(context.attributes, field)

\* the switch (operator) of the service's evaluateCondition
serviceApplyOperator(operator, cv, value) ==
  CASE operator = "equals" -> StrictEquals(cv, value)
    [] operator = "not_equals" -> ~StrictEquals(cv, value)
    [] operator = "contains" ->
         TypeOf(cv) = "string" /\ TypeOf(value) = "string"
           /\ StringIncludes(cv.v, value.v)
    [] operator = "not_contains" ->
         TypeOf(cv) = "string" /\ TypeOf(value) = "string"
           /\ ~StringIncludes(cv.v, value.v)
    [] operator = "greater_than" ->
         TypeOf(cv) = "number" /\ TypeOf(value) = "number" /\ cv.v > value.v
    [] operator = "less_than" ->
         TypeOf(cv) = "number" /\ TypeOf(value) = "number" /\ cv.v < value.v
    [] operator = "in" -> IsArray(value) /\ ArrayIncludes(value, cv)
    [] operator = "not_in" -> IsArray(value) /\ ~ArrayIncludes(value, cv)
    [] OTHER -> FALSE

serviceEvaluateCondition(condition, context) ==
  serviceApplyOperator(condition.operator,
                       serviceContextValue(condition.field, context),
                       condition.value)

\* rule.conditions.every(condition => evaluateCondition(condition, context))
serviceEvaluateRule(rule, context) ==
  \A i \in 1..Len(rule.conditions) :
    serviceEvaluateCondition(rule.conditions[i], context)

\* the service's comparator (a, b) => b.priority - a.priority
serviceComparePriority(a, b) == b.priority - a.priority

RECURSIVE serviceInsert(_, _)
serviceInsert(sorted, r) ==
  IF sorted = <<>> THEN <<r>>
  ELSE IF serviceComparePriority(Head(sorted), r) <= 0
       THEN <<Head(sorted)>> \o serviceInsert(Tail(sorted), r)
       ELSE <<r>> \o sorted

\* [...flag.rules].sort(comparator) of the service
RECURSIVE serviceSortRules(_)
serviceSortRules(rules) ==
  IF rules = <<>> THEN <<>>
  ELSE serviceInsert(serviceSortRules(SubSeq(rules, 1, Len(rules) - 1)),
                     rules[Len(rules)])

\* for (const rule of sortedRules) of the service
RECURSIVE serviceFirstMatch(_, _, _)
serviceFirstMatch(sortedRules, context, dflt) ==
  IF sortedRules = <<>> THEN dflt
  ELSE IF serviceEvaluateRule(Head(sortedRules), context)
       THEN Head(sortedRules).value
  ELSE serviceFirstMatch(Tail(sortedRules), context, dflt)

\* EvaluateFlagRequest: the key and the fields of the context
evaluateFlagRequest(k, context) ==
  [flagKey |-> k, userId |-> context.userId, userEmail |-> context.userEmail,
   userRole |-> context.userRole, attributes |-> context.attributes]

\* evaluateFlag(request) on mockFlags
evaluateFlag(request, flags, clock) ==
  LET found == findFlagByKey(flags, request.flagKey)
      flag == found.flag
      context == [userId |-> request.userId, userEmail |-> request.userEmail,
                  userRole |-> request.userRole,
                  attributes |-> request.attributes]
  IN IF request.flagKey = <<>>
     THEN Fail("evaluateFlag", "Flag key is required")
     ELSE IF ~found.found THEN Fail("evaluateFlag", "not found")
     ELSE IF ~flag.enabled THEN Ok("evaluateFlag", flag.defaultValue)
     ELSE IF flag.expiresAt.set /\ clock > flag.expiresAt.at
     THEN Ok("evaluateFlag", flag.defaultValue)
     ELSE Ok("evaluateFlag",
             serviceFirstMatch(serviceSortRules(flag.rules), context,
                               flag.defaultValue))

----------------------------------------------------------------------------
(* Specification of the service's evaluation: mockFlags holding one flag,  *)
(* a context and a clock reading for evaluateFlag; or a condition and a    *)
(* context for the service's evaluateCondition.                            *)

InitServiceFlag ==
  /\ repo \in {<<f>> : f \in Flags}
  /\ ctx \in Contexts
  /\ now \in 0..MaxTime
  /\ key = <<>>
  /\ cond = NoCond
  /\ arg = NoArg
  /\ pc = "start"
  /\ out = NoOut

InitService == InitServiceFlag \/ InitCond \/ InitField

\* evaluateFlag({ flagKey, userId, userEmail, userRole, attributes })
ServiceEvaluateFlag ==
  /\ pc = "start" /\ cond = NoCond
  /\ \E k \in Keys :
       /\ key' = k
       /\ out' = evaluateFlag(evaluateFlagRequest(k, ctx), repo, now)
  /\ pc' = "done"
  /\ UNCHANGED <<repo, ctx, now, cond, arg>>

\* the service's evaluateCondition(condition, context)
ServiceEvaluateCondition ==
  /\ pc = "start" /\ cond # NoCond
  /\ out' = Ok("serviceEvaluateCondition", serviceEvaluateCondition(cond, ctx))
  /\ pc' = "done"
  /\ UNCHANGED <<repo, ctx, now, key, cond, arg>>

NextService == ServiceEvaluateFlag \/ ServiceEvaluateCondition

SpecService == InitService /\ [][NextService]_vars

----------------------------------------------------------------------------
(* Properties of the service's evaluation (SpecService) *)

\* C29: for a flag that evaluateFlag finds by its key, any context and the
\* same clock reading, evaluateFlag returns the boolean that the entity's
\* evaluate returns on that flag, and the service's evaluateCondition
\* returns on every condition what the entity's evaluateCondition returns.
C29_ImplementationsAgree ==
  /\ (pc = "done" /\ out.op = "evaluateFlag") =>
       \A i \in 1..Len(repo) :
         repo[i].key = key =>
           (out.ok /\ out.value = evaluate(repo[i], ctx, now))
  /\ (pc = "done" /\ out.op = "serviceEvaluateCondition") =>
       out.value = evaluateCondition(cond, ctx)

\* two rules match, the one later in the array has the higher number and
\* the other value, and both implementations return its value
C29_Witness ==
  /\ pc = "done" /\ out.op = "evaluateFlag" /\ out.ok /\ key = KEY1
  /\ repo[1].enabled /\ ~isExpired(repo[1], now) /\ repo[1].expiresAt.set
  /\ Len(repo[1].rules) = 2
  /\ evaluateRule(repo[1].rules[1], ctx) /\ evaluateRule(repo[1].rules[2], ctx)
  /\ repo[1].rules[1].priority < repo[1].rules[2].priority
  /\ repo[1].rules[1].value # repo[1].rules[2].value
  /\ out.value = repo[1].rules[2].value
  /\ out.value # repo[1].defaultValue

\* the role of the context against a condition on the field role
C29_WitnessCondition ==
  /\ pc = "done" /\ out.op = "serviceEvaluateCondition"
  /\ cond.field = "role" /\ ctx.userRole = Str(ADMIN)
  /\ cond.value = Str(ADMIN) /\ out.value

----------------------------------------------------------------------------
(* The use cases step by step: each stage of the pipe is one step, and     *)
(* arg.calls is the sequence of calls made on the repository so far.       *)

\* featureFlagRepository.findByKey(key): null, or the row through validation
repositoryFindByKey(store, k) ==
  IF \E r \in store : r.key = k
  THEN [found |-> TRUE,
        entity |-> toDomainEntityWithValidation(CHOOSE r \in store : r.key = k)]
  ELSE [found |-> FALSE, entity |-> Fail("findByKey", "")]

\* featureFlagRepository.delete(id): result.affected === 1
repositoryDelete(store, id) ==
  LET rows == {r \in store : r.id = id}
  IN [result |-> Ok("deleteFeatureFlagUseCase", Cardinality(rows) = 1),
      store |-> store \ rows]

\* mutant: the update use case goes from the validated request to the update
stageAfter_updateSkipsFind(op, stage) ==
  CASE stage = "checkId" ->
         IF op = "deleteFeatureFlagUseCase" THEN "find" ELSE "validate"
    [] stage = "validate" ->
         IF op = "updateFeatureFlagUseCase" THEN "act" ELSE "find"
    [] stage = "find" -> "act"
    [] OTHER -> "done"

\* the order of the stages in the pipe of a use case
stageAfter(op, stage) ==
  CASE stage = "checkId" ->
         IF op = "deleteFeatureFlagUseCase" THEN "find" ELSE "validate"
    [] stage = "validate" -> "find"
    [] stage = "find" -> "act"
    [] OTHER -> "done"

\* the message of the first stage: !id, !flagId, !key
requiredMessage(op) ==
  IF op = "evaluateFeatureFlagUseCase" THEN "Feature flag key is required"
  ELSE "Feature flag ID is required"

----------------------------------------------------------------------------
(* Specification of the pipelines: a store of valid flags and one call of  *)
(* the update, delete or evaluate use case, taken stage by stage.          *)

PipelineRequests ==
  {[op |-> "updateFeatureFlagUseCase", id |-> id, key |-> <<>>, dto |-> dto,
    calls |-> <<>>, before |-> {}] : id \in FlagIds, dto \in UpdateDtos}
  \cup
  {[op |-> "deleteFeatureFlagUseCase", id |-> id, key |-> <<>>,
    dto |-> requestDto(EmptyContext), calls |-> <<>>, before |-> {}] :
   id \in FlagIds}
  \cup
  {[op |-> "evaluateFeatureFlagUseCase", id |-> "", key |-> k,
    dto |-> requestDto(c), calls |-> <<>>, before |-> {}] :
   k \in {<<>>, KEY1, KEY3}, c \in EntityContexts}

InitPipeline ==
  /\ repo \in {{StoredFlag1}, {StoredFlag1, StoredFlag2}}
  /\ ctx = EmptyContext
  /\ now = 1
  /\ key = <<>>
  /\ cond = NoCond
  /\ \E r \in PipelineRequests : arg = [r EXCEPT !.before = repo]
  /\ pc = "checkId"
  /\ out = NoOut

\* !id, !flagId, !key
CheckId ==
  /\ pc = "checkId"
  /\ LET missing == IF arg.op = "evaluateFeatureFlagUseCase"
                    THEN arg.key = <<>> ELSE arg.id = ""
     IN IF missing
        THEN /\ out' = Fail(arg.op, requiredMessage(arg.op))
             /\ pc' = "failed"
        ELSE /\ out' = out
             /\ pc' = stageAfter(arg.op, "checkId")
  /\ UNCHANGED <<repo, ctx, now, key, cond, arg>>

\* validateUpdateFeatureFlagRequest(dto), validateEvaluationRequest(dto)
ValidateDto ==
  /\ pc = "validate"
  /\ LET valid == IF arg.op = "evaluateFeatureFlagUseCase"
                  THEN validateEvaluationRequest(arg.dto).ok
                  ELSE validateUpdateFeatureFlagRequest(arg.dto)
     IN IF valid
        THEN /\ out' = out
             /\ pc' = stageAfter(arg.op, "validate")
        ELSE /\ out' = Fail(arg.op, "Validation failed")
             /\ pc' = "failed"
  /\ UNCHANGED <<repo, ctx, now, key, cond, arg>>

\* featureFlagRepository.findById(id), featureFlagRepository.findByKey(key)
FindFlag ==
  /\ pc = "find"
  /\ LET byKey == arg.op = "evaluateFeatureFlagUseCase"
         existing == IF byKey THEN repositoryFindByKey(repo, arg.key)
                     ELSE findById(repo, arg.id)
     IN /\ arg' = [arg EXCEPT !.calls =
                     Append(@, IF byKey THEN "findByKey" ELSE "findById")]
        /\ IF ~existing.found
           THEN /\ out' = Fail(arg.op, "Feature flag not found")
                /\ pc' = "failed"
           ELSE IF ~existing.entity.ok
           THEN /\ out' = Fail(arg.op, existing.entity.error)
                /\ pc' = "failed"
           ELSE /\ out' = existing.entity
                /\ pc' = stageAfter(arg.op, "find")
  /\ UNCHANGED <<repo, ctx, now, key, cond>>

\* featureFlagRepository.update(id, validatedDto)
CallUpdate ==
  /\ pc = "act" /\ arg.op = "updateFeatureFlagUseCase"
  /\ now' = now + 1
  /\ LET done == repositoryUpdate(repo, arg.id, arg.dto, now')
     IN /\ out' = done.result
        /\ repo' = done.store
        /\ pc' = IF done.result.ok THEN "done" ELSE "failed"
  /\ arg' = [arg EXCEPT !.calls = Append(@, "update")]
  /\ UNCHANGED <<ctx, key, cond>>

\* featureFlagRepository.delete(flagId)
CallDelete ==
  /\ pc = "act" /\ arg.op = "deleteFeatureFlagUseCase"
  /\ LET done == repositoryDelete(repo, arg.id)
     IN /\ out' = done.result
        /\ repo' = done.store
  /\ pc' = "done"
  /\ arg' = [arg EXCEPT !.calls = Append(@, "delete")]
  /\ UNCHANGED <<ctx, now, key, cond>>

\* evaluate(flag, context) on the flag found, and the response
EvaluateFoundFlag ==
  /\ pc = "act" /\ arg.op = "evaluateFeatureFlagUseCase"
  /\ LET validatedDto == validateEvaluationRequest(arg.dto).dto
         flag == out.value
         result == evaluateOrRaise(flag, useCaseContext(validatedDto), now)
     IN IF result.ok
        THEN /\ out' = toEvaluationResponseDto(
                         flag.key, result.value.v,
                         IF result.value.v = flag.defaultValue
                         THEN "default" ELSE "rule_match", now)
             /\ pc' = "done"
        ELSE /\ out' = [result EXCEPT !.op = arg.op]
             /\ pc' = "failed"
  /\ UNCHANGED <<repo, ctx, now, key, cond, arg>>

NextPipeline ==
  \/ CheckId \/ ValidateDto \/ FindFlag
  \/ CallUpdate \/ CallDelete \/ EvaluateFoundFlag

SpecPipeline == InitPipeline /\ [][NextPipeline]_vars

----------------------------------------------------------------------------
(* Properties of the pipelines (SpecPipeline) *)

\* the checks of a request, against the store the call met
IdGiven ==
  IF arg.op = "evaluateFeatureFlagUseCase" THEN arg.key # <<>> ELSE arg.id # ""
DtoPasses ==
  CASE arg.op = "updateFeatureFlagUseCase" ->
         validateUpdateFeatureFlagRequest(arg.dto)
    [] arg.op = "evaluateFeatureFlagUseCase" ->
         arg.dto.userId.t = "string" /\ arg.dto.userId.v # <<>>
    [] OTHER -> TRUE
FlagExists ==
  IF arg.op = "evaluateFeatureFlagUseCase"
  THEN \E r \in arg.before : r.key = arg.key
  ELSE \E r \in arg.before : r.id = arg.id

Called(name) == \E i \in 1..Len(arg.calls) : arg.calls[i] = name

\* the find call of the use case stands before the call
FoundBefore(name) ==
  \A i \in 1..Len(arg.calls) :
    arg.calls[i] = name =>
      \E j \in 1..(i - 1) : arg.calls[j] \in {"findById", "findByKey"}

\* C30: update and delete are called on the repository only after the id
\* was found non-empty, the update request passed validation and findById
\* returned a flag; findByKey is called by evaluate only after the key was
\* found non-empty and the request passed validation; and when a step fails
\* the use case fails with that step's error and no later repository call
\* is made.
C30_CheckBeforeAct ==
  /\ (Called("update") \/ Called("delete")) =>
       /\ IdGiven /\ DtoPasses /\ FlagExists
       /\ FoundBefore("update") /\ FoundBefore("delete")
  /\ (Called("findByKey") \/ Called("findById")) => (IdGiven /\ DtoPasses)
  /\ (pc \in {"done", "failed"} /\ ~IdGiven) =>
       /\ ~out.ok /\ out.error = requiredMessage(arg.op)
       /\ arg.calls = <<>> /\ repo = arg.before
  /\ (pc \in {"done", "failed"} /\ IdGiven /\ ~DtoPasses) =>
       /\ ~out.ok /\ out.error = "Validation failed"
       /\ arg.calls = <<>> /\ repo = arg.before
  /\ (pc \in {"done", "failed"} /\ IdGiven /\ DtoPasses /\ ~FlagExists) =>
       /\ ~out.ok /\ out.error = "Feature flag not found"
       /\ Len(arg.calls) = 1 /\ repo = arg.before

\* an update that went through all four stages, on a store of two flags
C30_Witness ==
  /\ pc = "done" /\ arg.op = "updateFeatureFlagUseCase" /\ out.ok
  /\ arg.calls = <<"findById", "update">>
  /\ arg.dto.key = Str(KEY3) /\ Cardinality(repo) = 2
  /\ repo # arg.before

\* a delete of an id no flag has: findById, and no delete
C30_WitnessNotFound ==
  /\ pc = "failed" /\ arg.op = "deleteFeatureFlagUseCase"
  /\ arg.id = "flag-9" /\ arg.calls = <<"findById">>
  /\ out.error = "Feature flag not found"

\* an evaluation whose request fails validation: no findByKey
C30_WitnessInvalidRequest ==
  /\ pc = "failed" /\ arg.op = "evaluateFeatureFlagUseCase"
  /\ arg.key = KEY1 /\ arg.calls = <<>>
  /\ out.error = "Validation failed"

====
